---- MODULE Spec2Model ----
(***************************************************************************)
(* The client-side activity logger of the library portal                   *)
(* (src/lib/logger.ts): the write pipeline writeLog, the offline queue     *)
(* pendingLogs with its localStorage copy, and the replay                  *)
(* processPendingLogs, run as interleaved async calls on one event loop.   *)
(* Every await of the source (the client-info fetch, the remote addDoc) is *)
(* a point where another call, or a page reload, may run.                  *)
(***************************************************************************)
EXTENDS Integers, Sequences, FiniteSets, TLC

\* ------------------------------------------------------------------ bounds
\* async logger calls that may be in flight at once
MaxCalls == 3
\* records built by the LogFacade methods over a whole run
MaxRecords == 2
\* calls of processPendingLogs over a whole run
MaxReplays == 2
\* page reloads (a fresh Logger over the same localStorage) over a whole run
MaxReloads == 1
\* environment faults (a failed fetch, a throwing localStorage call, a foreign
\* item found at start) over a whole run of the faulty environment
MaxFaults == 1
\* records built over a whole run by the methods that write more than one
\* record per call (logPageView, logLogout)
MaxChainRecords == 3
\* milliseconds the clock may advance over a whole run
MaxElapsed == 2000
\* records built over a whole run of page changes that follow each other quickly
MaxVisitRecords == 5
\* auth state changes the identity provider reports over a whole run
MaxDepth == 2
MaxWidth == 2
MaxAuthEvents == 1

\* ------------------------------------------------------------------ values
\* JavaScript's undefined: the value of an unset parameter or missing property
Undefined == "undefined"
\* user identifiers (user.uid of the identity provider): the one the LogFacade
\* callers pass, and the ones processPendingLogs is called with
LogUsers == {"u1"}
ReplayUsers == {"u1", "u2"}
OptLogUsers == LogUsers \cup {Undefined}
\* the FieldValue sentinel object returned by serverTimestamp()
ServerTimestamp == "FieldValue(serverTimestamp)"
\* the same sentinel once copied into a plain object (JSON, Object.entries)
TimestampPlain == "{_methodName:serverTimestamp}"

\* JavaScript truthiness of the (string or undefined) values of the model
Truthy(v) == v # Undefined /\ v # ""
\* a || b
Or(a, b) == IF Truthy(a) THEN a ELSE b
\* property read o.k: undefined when the object has no such property
Get(o, k) == IF k \in DOMAIN o THEN o[k] ELSE Undefined
\* object spread {...a, ...b}: b's properties win
Spread(a, b) == [k \in DOMAIN a \cup DOMAIN b |-> IF k \in DOMAIN b THEN b[k] ELSE a[k]]

\* The log kinds of the LogEntry union
AuthKinds == {"login", "logout"}
SystemKinds == {"system_error", "unauthorized_access"}
OtherKinds == {"session_start", "session_end", "api_request", "page_view",
               "book_search", "filter_change", "book_view", "borrow_request",
               "return_request", "view_history", "tab_switch", "user_interaction"}
Kinds == AuthKinds \cup SystemKinds \cup OtherKinds

\* ------------------------------------------------------------------ records
\* A LogEntry object: f holds its properties; id numbers the objects (a history
\* tag, not a property): in the order the LogFacade calls start, the records
\* of one call in the order it writes them.
NewEntry(n, fields) == [id |-> n, f |-> fields]

\* variant: the errorMessage parameter is not copied into the entry
LoginFields_NoMessage(a) ==
    [type |-> "login", success |-> a.success, email |-> a.email, userId |-> a.userId,
     userRole |-> a.userRole, errorMessage |-> Undefined,
     loginMethod |-> "email_password", timestamp |-> ServerTimestamp]

\* logLogin: every parameter becomes a property, set or undefined
LoginFields(a) ==
    [type |-> "login", success |-> a.success, email |-> a.email, userId |-> a.userId,
     userRole |-> a.userRole, errorMessage |-> a.errorMessage,
     loginMethod |-> "email_password", timestamp |-> ServerTimestamp]

\* logSessionStart: no user identifier at all
SessionStartFields == [type |-> "session_start", timestamp |-> ServerTimestamp]

\* logSystemError: userId is a property only when the argument is truthy
SystemErrorFields(userId) ==
    LET base == [type |-> "system_error", errorMessage |-> "boom",
                 component |-> "AuthProvider", timestamp |-> ServerTimestamp]
    IN  IF Truthy(userId) THEN Spread(base, [userId |-> userId]) ELSE base

\* logBookView: userId is a required argument; source is optional
BookViewFields(userId, source) ==
    [type |-> "book_view", bookId |-> "b1", bookTitle |-> "Dune", source |-> source,
     userId |-> userId, timestamp |-> ServerTimestamp]

\* logUnauthorizedAccess: userId is a property only when the argument is truthy
UnauthorizedAccessFields(userId) ==
    LET base == [type |-> "unauthorized_access", targetPath |-> "/login",
                 attemptedAction |-> "user_portal_access",
                 denialReason |-> "Invalid role for user portal",
                 timestamp |-> ServerTimestamp]
    IN  IF Truthy(userId) THEN Spread(base, [userId |-> userId]) ELSE base

\* logApiRequest: success is computed from the status code; userId and payload
\* are properties only when given
ApiRequestFields(statusCode, userId, payload) ==
    LET base == [type |-> "api_request", endpoint |-> "/api/books", method |-> "GET",
                 responseTime |-> "120", statusCode |-> ToString(statusCode),
                 success |-> IF statusCode >= 200 /\ statusCode < 300 THEN "true" ELSE "false",
                 timestamp |-> ServerTimestamp]
        withUser == IF Truthy(userId) THEN Spread(base, [userId |-> userId]) ELSE base
    IN  IF payload # Undefined THEN Spread(withUser, [payload |-> payload]) ELSE withUser

\* logBookSearch: the filters object keeps a filter that is set and not "all"
BookSearchFields(genre, userId) ==
    [type |-> "book_search", searchQuery |-> "dune",
     filters |-> IF genre # Undefined /\ genre # "all" THEN "{genre}" ELSE "{}",
     resultsCount |-> "3", userId |-> userId, timestamp |-> ServerTimestamp]

\* logFilterChange
FilterChangeFields(userId, previousValue) ==
    [type |-> "filter_change", section |-> "books", filterType |-> "genre",
     filterValue |-> "fiction", previousValue |-> previousValue,
     resultsCount |-> Undefined, userId |-> userId, timestamp |-> ServerTimestamp]

\* logBorrowRequest
BorrowRequestFields(requestStatus, userId, errorReason) ==
    [type |-> "borrow_request", bookId |-> "b1", bookTitle |-> "Dune",
     requestStatus |-> requestStatus, errorReason |-> errorReason, userId |-> userId,
     timestamp |-> ServerTimestamp]

\* logReturnRequest: requestStatus defaults to "submitted"
ReturnRequestFields(userId, requestStatus) ==
    [type |-> "return_request", bookId |-> "b1", bookTitle |-> "Dune",
     originalBorrowingId |-> "br1", isOverdue |-> "false", daysPastDue |-> Undefined,
     requestStatus |-> IF requestStatus = Undefined THEN "submitted" ELSE requestStatus,
     userId |-> userId, timestamp |-> ServerTimestamp]

\* logViewHistory
ViewHistoryFields(userId) ==
    [type |-> "view_history", historyType |-> "borrowings", userId |-> userId,
     timestamp |-> ServerTimestamp]

\* logTabSwitch
TabSwitchFields(userId) ==
    [type |-> "tab_switch", section |-> "borrowings", fromTab |-> "active",
     toTab |-> "history", timeSpentOnPreviousTab |-> Undefined, userId |-> userId,
     timestamp |-> ServerTimestamp]

\* logUserInteraction
UserInteractionFields(userId, elementId) ==
    [type |-> "user_interaction", action |-> "click", element |-> "book_card",
     elementId |-> elementId, section |-> "books", additionalData |-> Undefined,
     userId |-> userId, timestamp |-> ServerTimestamp]

\* logPageView, the entry record of the new page
PageViewFields(pageName, pageUrl, userId, referrer) ==
    [type |-> "page_view", pageName |-> pageName, pageUrl |-> pageUrl,
     referrer |-> referrer, userId |-> userId, timestamp |-> ServerTimestamp]

\* variant: the trailing record carries no timeSpent
TrailingFields_NoTime(page, timeSpent, userId) ==
    [type |-> "page_view", pageName |-> page, pageUrl |-> page,
     userId |-> userId, timestamp |-> ServerTimestamp]

\* logPageView, the trailing record of the previous page: the tracked page
\* name is written as pageName and as pageUrl
TrailingFields(page, timeSpent, userId) ==
    [type |-> "page_view", pageName |-> page, pageUrl |-> page,
     timeSpent |-> ToString(timeSpent), userId |-> userId, timestamp |-> ServerTimestamp]

\* the time-spent threshold of logPageView, in milliseconds
MinTimeSpent == 1000

\* variant: a time spent of exactly the threshold is logged too
EmitsTrailing_AtLeast(timeSpent) == timeSpent >= MinTimeSpent

\* variant: the threshold is a tenth of a second
EmitsTrailing_Tenth(timeSpent) == timeSpent > 100

\* logPageView's test "if (timeSpent > 1000)"
EmitsTrailing(timeSpent) == timeSpent > MinTimeSpent

\* variant: logLogout writes the logout record first
LogoutRecords_Reversed(userId, userRole, sessionDuration) ==
    <<[type |-> "logout", success |-> "true", userId |-> userId, userRole |-> userRole,
       timestamp |-> ServerTimestamp],
      [type |-> "session_end", userId |-> userId, userRole |-> userRole,
       sessionDuration |-> ToString(sessionDuration), timestamp |-> ServerTimestamp]>>

\* logLogout: the session_end record, then the logout record
LogoutRecords(userId, userRole, sessionDuration) ==
    <<[type |-> "session_end", userId |-> userId, userRole |-> userRole,
       sessionDuration |-> ToString(sessionDuration), timestamp |-> ServerTimestamp],
      [type |-> "logout", success |-> "true", userId |-> userId, userRole |-> userRole,
       timestamp |-> ServerTimestamp]>>

\* the pages the dashboard logs views of
Pages == {[name |-> "Dashboard", url |-> "/dashboard"], [name |-> "Books", url |-> "/books"]}

\* the argument tuples of logLogin the call sites use
LoginArgs ==
    {[success |-> "true", email |-> "a@b.com", userId |-> u, userRole |-> "user",
      errorMessage |-> Undefined] : u \in LogUsers}
    \cup {[success |-> "false", email |-> "a@b.com", userId |-> Undefined,
           userRole |-> Undefined, errorMessage |-> "bad password"]}

\* ------------------------------------------------------------------ pure steps of writeLog
\* getClientInfo: the user agent, and the looked-up IP or "Unknown" when the
\* fetch fails (the failure is swallowed)
getClientInfo(fetchOk) ==
    [userAgent |-> "UA", ipAddress |-> IF fetchOk THEN "203.0.113.7" ELSE "Unknown"]

\* variant: the entry's own userId is preferred (logEntry.userId || userId)
StampedData_EmbeddedFirst(fields, userId, sid, info) ==
    LET logData == Spread(fields, [timestamp |-> ServerTimestamp, sessionId |-> sid,
                                   userAgent |-> info.userAgent,
                                   ipAddress |-> info.ipAddress])
    IN  IF Truthy(userId) \/ Truthy(Get(fields, "userId"))
        THEN Spread(logData, [userId |-> Or(Get(fields, "userId"), userId)])
        ELSE logData

\* logData: the entry's properties stamped with timestamp, session id and client
\* info; userId attached when the explicit argument or the embedded one is truthy
StampedData(fields, userId, sid, info) ==
    LET logData == Spread(fields, [timestamp |-> ServerTimestamp, sessionId |-> sid,
                                   userAgent |-> info.userAgent,
                                   ipAddress |-> info.ipAddress])
    IN  IF Truthy(userId) \/ Truthy(Get(fields, "userId"))
        THEN Spread(logData, [userId |-> Or(userId, Get(fields, "userId"))])
        ELSE logData

\* variant: the first branch tests for "login" only
CollectionPath_LoginOnly(type, dataUserId) ==
    IF type = "login" THEN <<"authLogs">>
    ELSE IF type = "system_error" \/ type = "unauthorized_access" THEN <<"systemLogs">>
    ELSE IF Truthy(dataUserId) THEN <<"users", dataUserId, "logs">>
    ELSE <<"systemLogs">>

\* the collection path, as its segments
CollectionPath(type, dataUserId) ==
    IF type = "login" \/ type = "logout" THEN <<"authLogs">>
    ELSE IF type = "system_error" \/ type = "unauthorized_access" THEN <<"systemLogs">>
    ELSE IF Truthy(dataUserId) THEN <<"users", dataUserId, "logs">>
    ELSE <<"systemLogs">>

\* cleanUndefinedValues on one property value: the sentinel is an object, so it
\* is rebuilt from its own enumerable properties as a plain object
cleanValue(v) == IF v = ServerTimestamp THEN TimestampPlain ELSE v

\* cleanUndefinedValues on a (flat) object: properties whose value is undefined
\* are left out
cleanUndefinedValues(obj) ==
    [k \in {k \in DOMAIN obj : obj[k] # Undefined} |-> cleanValue(obj[k])]

\* ------------------------------------------------------------------ nested values
\* A value of any shape, as cleanUndefinedValues receives it: t is what the
\* tests of the function tell apart, v the content of a scalar, kids the
\* entries of an object (in Object.entries order) or the elements of an array.
Node(t, v, kids) == [t |-> t, v |-> v, kids |-> kids]
UndefinedValue == Node("undefined", "", <<>>)
NullValue == Node("null", "", <<>>)
ScalarValue(v) == Node("scalar", v, <<>>)
ObjectValue(kids) == Node("object", "", kids)
ArrayValue(kids) == Node("array", "", kids)
Entry(k, n) == [k |-> k, n |-> n]

\* the filter of both branches: value !== undefined
NotUndefined(e) == e.n.t # "undefined"

\* variant: the properties of the object are filtered, their values are not cleaned
cleanUndefinedValuesDeep_Shallow(obj) ==
    IF obj.t \in {"null", "undefined"} THEN NullValue
    ELSE IF obj.t = "object" THEN ObjectValue(SelectSeq(obj.kids, NotUndefined))
    ELSE obj

\* cleanUndefinedValues on a value of any shape: null and undefined become
\* null; the elements of an array are cleaned and those that are then
\* undefined filtered out; an object is rebuilt from its properties that are
\* not undefined, each cleaned; anything else is returned as it is
RECURSIVE cleanUndefinedValuesDeep(_)
cleanUndefinedValuesDeep(obj) ==
    IF obj.t \in {"null", "undefined"} THEN NullValue
    ELSE IF obj.t = "array"
    THEN ArrayValue(SelectSeq([i \in 1..Len(obj.kids) |->
                                  Entry(obj.kids[i].k, cleanUndefinedValuesDeep(obj.kids[i].n))],
                              NotUndefined))
    ELSE IF obj.t = "object"
    THEN LET entries == SelectSeq(obj.kids, NotUndefined)
             cleaned == [i \in 1..Len(entries) |->
                            Entry(entries[i].k, cleanUndefinedValuesDeep(entries[i].n))]
         IN  ObjectValue(SelectSeq(cleaned, NotUndefined))
    ELSE obj

\* an addDoc rejection is an Error with a message; words lists which of the two
\* searched substrings the message contains
PermissionDenied == [isError |-> TRUE, words |-> {"permission"}]
Unauthorized == [isError |-> TRUE, words |-> {"unauthorized"}]
NetworkError == [isError |-> TRUE, words |-> {}]
AddDocErrors == {PermissionDenied, Unauthorized, NetworkError}

\* whatever addDoc may reject with: an Error or another thrown value, whose
\* text holds either, both or none of the two substrings
ErrorShapes == [isError : BOOLEAN, words : SUBSET {"permission", "unauthorized"}]

\* variant: the message of the error is not looked at
ShouldQueue_AnyError(allowQueue, error) ==
    /\ allowQueue
    /\ error.isError

\* variant: the allowQueue parameter is not consulted
ShouldQueue_IgnoreFlag(allowQueue, error) ==
    /\ error.isError
    /\ ("permission" \in error.words \/ "unauthorized" \in error.words)

\* the test of the catch block that decides on queueing
ShouldQueue(allowQueue, error) ==
    /\ allowQueue
    /\ error.isError
    /\ ("permission" \in error.words \/ "unauthorized" \in error.words)

\* ------------------------------------------------------------------ local storage
\* the "pendingLogs" item: absent, a JSON text (held as the value it parses
\* to), or a text JSON.parse rejects
NoItem == [kind |-> "none"]
JsonText(v) == [kind |-> "text", json |-> v]
Garbage == [kind |-> "garbage"]

\* JSON.stringify of an object: undefined-valued properties are dropped, the
\* sentinel is written as a plain object
JsonObject(obj) ==
    [k \in {k \in DOMAIN obj : obj[k] # Undefined} |->
        IF obj[k] = ServerTimestamp THEN TimestampPlain ELSE obj[k]]

\* variant: only the logEntry of a queue entry is written
JsonEntry_NoUserId(e) ==
    [k \in {k \in DOMAIN e : k = "logEntry"} |->
        [id |-> e[k].id, f |-> JsonObject(e[k].f)]]

\* JSON.stringify of one queue entry { logEntry, userId }
JsonEntry(e) ==
    [k \in {k \in DOMAIN e : k = "logEntry" \/ e[k] # Undefined} |->
        IF k = "logEntry" THEN [id |-> e[k].id, f |-> JsonObject(e[k].f)] ELSE e[k]]

\* JSON.stringify(this.pendingLogs)
Stringify(q) == [i \in 1..Len(q) |-> JsonEntry(q[i])]

\* variant: the constructor does not load the queue
loadPendingLogs_Skip(st, readOk) == <<>>

\* variant: a getItem that throws goes unnoticed and the item is parsed all the same
loadPendingLogs_IgnoreReadError(st, readOk) ==
    IF st.kind = "text" THEN st.json ELSE <<>>

\* loadPendingLogs: the parsed item, or the initial empty array when the item
\* is missing or the read or the parse throws (caught and logged)
loadPendingLogs(st, readOk) ==
    IF readOk /\ st.kind = "text" THEN st.json ELSE <<>>

\* variant: the queue is never written
savePendingLogs_Never(q, st, writeOk) == st

\* variant: an empty queue is not written (a length test before setItem)
savePendingLogs_SkipEmpty(q, st, writeOk) ==
    IF writeOk /\ q # <<>> THEN JsonText(Stringify(q)) ELSE st

\* savePendingLogs: the item becomes the stringified queue, unless setItem
\* throws (caught and logged), which leaves the item as it was
savePendingLogs(q, st, writeOk) ==
    IF writeOk THEN JsonText(Stringify(q)) ELSE st

\* ------------------------------------------------------------------ state
VARIABLES
    pendingLogs,              \* Logger.pendingLogs: the in-memory queue
    isProcessingPendingLogs,  \* Logger.isProcessingPendingLogs
    sessionNo,                \* numbers the Logger instances; sessionId is its text
    storage,                  \* localStorage item "pendingLogs"
    calls,                    \* the async logger calls in flight, by slot
    attempts,                 \* history: every addDoc issued, with its outcome
    nextId,                   \* history: LogEntry objects built so far
    replayCalls,              \* history: processPendingLogs calls made
    replayNoops,              \* history: those that returned at the guard
    reloads,                  \* history: page reloads so far
    faults,                   \* history: environment faults so far
    lost,                     \* history: ids snapshotted by a replay that a reload cut off before their addDoc
    caught,                   \* history: the outer catch blocks (of writeLog, of processPendingLogs) that have run
    raised,                   \* history: operations that threw to their caller
    probe,                    \* input and result of a pure step run on its own
    currentPage,              \* Logger.currentPage
    pageStartTime,            \* Logger.pageStartTime
    sessionStartTime,         \* Logger.sessionStartTime
    now,                      \* Date.now()
    authHandler,              \* the onAuthStateChanged callback of AuthProvider: its position
    pageCalls                 \* history: the logPageView calls made, with what each decided

vars == <<pendingLogs, isProcessingPendingLogs, sessionNo, storage, calls, attempts,
          nextId, replayCalls, replayNoops, reloads, faults, lost, caught, raised,
          probe, currentPage, pageStartTime, sessionStartTime, now, authHandler,
          pageCalls>>

\* the page tracking of logPageView
pageVars == <<currentPage, pageStartTime>>
\* what no step of writeLog or processPendingLogs touches
envVars == <<sessionStartTime, now, authHandler, pageCalls>>

\* Date.now() when the module is first loaded
Epoch == 1
\* no auth state change is being handled
HandlerIdle == [pc |-> "idle", uid |-> Undefined, awaits |-> 0, events |-> 0,
                doc |-> Undefined, called |-> Undefined]

Slots == 1..MaxCalls
Idle == [op |-> "idle"]

\* outcome of an addDoc, as the history records it
Pending == [state |-> "pending"]
Ok == [state |-> "ok"]
Failed(error) == [state |-> "failed", error |-> error]
\* in flight when the page was reloaded: no logger instance saw the outcome
Unknown == [state |-> "unknown"]

\* variant: every instance has the same sessionId
SessionId_Fixed(n) == ToString(1)

\* sessionId of the current Logger instance (generateSessionId: unique per instance)
SessionId(n) == ToString(n)

\* the arguments of one writeLog invocation; logEntry is left out when the
\* argument is undefined
Frame(logEntry, userId, allowQueue) ==
    [logEntry |-> logEntry, userId |-> userId, allowQueue |-> allowQueue]

\* variant: the replay's userId is preferred to the entry's (userId || logUserId)
ReplayFrame_ArgFirst(entry, userId) ==
    IF "logEntry" \in DOMAIN entry
    THEN Frame(entry.logEntry, Or(userId, Get(entry, "userId")), FALSE)
    ELSE [userId |-> Or(userId, Get(entry, "userId")), allowQueue |-> FALSE]

\* one iteration of the replay loop: destructure logs[i] and call
\* writeLog(logEntry, logUserId || userId, false)
ReplayFrame(entry, userId) ==
    IF "logEntry" \in DOMAIN entry
    THEN Frame(entry.logEntry, Or(Get(entry, "userId"), userId), FALSE)
    ELSE [userId |-> Or(Get(entry, "userId"), userId), allowQueue |-> FALSE]

\* a LogFacade call suspended in its writeLog
LogCall(frame) == [op |-> "log", pc |-> "fetch", w |-> frame]

\* the method that called writeLog has a further record to write when this
\* writeLog returns (logLogout's logout record, logPageView's entry record)
HasMore(call) == "rest" \in DOMAIN call /\ call.rest # <<>>

\* a LogFacade method suspended in a writeLog with further writes to come:
\* each element of rest is the frame of one, with the page it makes current
ChainCall(frame, rest) == [op |-> "log", pc |-> "fetch", w |-> frame, rest |-> rest]

\* a processPendingLogs call suspended in the writeLog of logs[idx]
ReplayCall(logs, idx, userId) ==
    [op |-> "replay", pc |-> "fetch", w |-> ReplayFrame(logs[idx], userId),
     logs |-> logs, idx |-> idx, userId |-> userId]

\* a call starts in the lowest idle slot
FreeSlot(c) ==
    /\ calls[c].op = "idle"
    /\ \A d \in Slots : d < c => calls[d].op # "idle"

NoProbe == [done |-> FALSE]

\* the state a new Logger is in, over a localStorage whose item is st
Constructed(st, readOk) ==
    /\ storage = st
    /\ pendingLogs = loadPendingLogs(st, readOk)
    /\ caught = {}
    /\ isProcessingPendingLogs = FALSE
    /\ sessionNo = 1
    /\ calls = [c \in Slots |-> Idle]
    /\ attempts = <<>>
    /\ nextId = 0
    /\ replayCalls = 0
    /\ replayNoops = 0
    /\ reloads = 0
    /\ faults = IF st = NoItem /\ readOk THEN 0 ELSE 1
    /\ lost = {}
    /\ raised = {}
    /\ now = Epoch
    /\ currentPage = ""
    /\ pageStartTime = now
    /\ sessionStartTime = now
    /\ authHandler = HandlerIdle
    /\ pageCalls = <<>>

\* the first visit of the origin: no item yet
Init == Constructed(NoItem, TRUE) /\ probe = NoProbe

\* ------------------------------------------------------------------ LogFacade
\* variant: the method calls writeLog a second time with the same arguments
BeginLog_Twice(c, fields, userId) ==
    LET frame == Frame(NewEntry(nextId + 1, fields), userId, TRUE)
    IN  /\ FreeSlot(c)
        /\ nextId' = nextId + 1
        /\ calls' = [calls EXCEPT ![c] = ChainCall(frame, <<[w |-> frame, page |-> Undefined]>>)]
        /\ UNCHANGED <<pendingLogs, isProcessingPendingLogs, sessionNo, storage, attempts,
                       replayCalls, replayNoops, reloads, faults, lost, caught, raised,
                       probe, pageVars, sessionStartTime, now, pageCalls>>

\* a LogFacade method builds its entry and calls writeLog(logEntry, userId),
\* which runs up to its first await, the client-info fetch
BeginLog(c, fields, userId) ==
    /\ FreeSlot(c)
    /\ nextId' = nextId + 1
    /\ calls' = [calls EXCEPT ![c] = LogCall(Frame(NewEntry(nextId + 1, fields), userId, TRUE))]
    /\ UNCHANGED <<pendingLogs, isProcessingPendingLogs, sessionNo, storage, attempts,
                   replayCalls, replayNoops, reloads, faults, lost, caught, raised, probe,
                   pageVars, sessionStartTime, now, pageCalls>>

\* a LogFacade method called by the page
StartLog(c, fields, userId) ==
    /\ nextId < MaxRecords
    /\ BeginLog(c, fields, userId)
    /\ UNCHANGED authHandler

logLogin(c, a) == StartLog(c, LoginFields(a), a.userId)

logSessionStart(c) == StartLog(c, SessionStartFields, Undefined)

logSystemError(c, userId) == StartLog(c, SystemErrorFields(userId), userId)

logBookView(c, userId, source) == StartLog(c, BookViewFields(userId, source), userId)

logUnauthorizedAccess(c, userId) == StartLog(c, UnauthorizedAccessFields(userId), userId)

logApiRequest(c, statusCode, userId, payload) ==
    StartLog(c, ApiRequestFields(statusCode, userId, payload), userId)

logBookSearch(c, genre, userId) == StartLog(c, BookSearchFields(genre, userId), userId)

logFilterChange(c, userId, previousValue) ==
    StartLog(c, FilterChangeFields(userId, previousValue), userId)

logBorrowRequest(c, requestStatus, userId, errorReason) ==
    StartLog(c, BorrowRequestFields(requestStatus, userId, errorReason), userId)

logReturnRequest(c, userId, requestStatus) ==
    StartLog(c, ReturnRequestFields(userId, requestStatus), userId)

logViewHistory(c, userId) == StartLog(c, ViewHistoryFields(userId), userId)

logTabSwitch(c, userId) == StartLog(c, TabSwitchFields(userId), userId)

logUserInteraction(c, userId, elementId) ==
    StartLog(c, UserInteractionFields(userId, elementId), userId)

\* logLogout(userId, userRole): writeLog(sessionLog, userId) is awaited, then
\* writeLog(logoutLog, userId)
logLogout(c, userId, userRole) ==
    LET records == LogoutRecords(userId, userRole, now - sessionStartTime)
    IN  /\ FreeSlot(c)
        /\ nextId + 2 <= MaxChainRecords
        /\ nextId' = nextId + 2
        /\ calls' = [calls EXCEPT ![c] =
                        ChainCall(Frame(NewEntry(nextId + 1, records[1]), userId, TRUE),
                                  <<[w |-> Frame(NewEntry(nextId + 2, records[2]), userId, TRUE),
                                     page |-> Undefined]>>)]
        /\ UNCHANGED <<pendingLogs, isProcessingPendingLogs, sessionNo, storage, attempts,
                       replayCalls, replayNoops, reloads, faults, lost, caught, raised,
                       probe, pageVars, envVars>>

\* logPageView(pageName, pageUrl, userId, referrer). With a tracked page and
\* more than the threshold spent on it, the trailing record is written first
\* and the method goes on after that writeLog has returned: only then it makes
\* the new page current, resets pageStartTime and writes the entry record.
\* Otherwise it does so at once. (limit caps the records built over a run.)
PageView(c, pageName, pageUrl, userId, referrer, limit) ==
    LET timeSpent == now - pageStartTime
        trailing == Truthy(currentPage) /\ pageStartTime # 0 /\ EmitsTrailing(timeSpent)
        n == IF trailing THEN 2 ELSE 1
        entry == Frame(NewEntry(nextId + n, PageViewFields(pageName, pageUrl, userId, referrer)),
                       userId, TRUE)
    IN  /\ FreeSlot(c)
        /\ nextId + n <= limit
        /\ nextId' = nextId + n
        /\ IF trailing
           THEN /\ calls' = [calls EXCEPT ![c] =
                    ChainCall(Frame(NewEntry(nextId + 1,
                                             TrailingFields(currentPage, timeSpent, userId)),
                                    userId, TRUE),
                              <<[w |-> entry, page |-> pageName]>>)]
                /\ UNCHANGED pageVars
           ELSE /\ calls' = [calls EXCEPT ![c] = LogCall(entry)]
                /\ currentPage' = pageName
                /\ pageStartTime' = now
        /\ pageCalls' = Append(pageCalls,
                               [page |-> pageName, at |-> now, tracked |-> currentPage,
                                elapsed |-> timeSpent,
                                trailing |-> IF trailing THEN nextId + 1 ELSE 0,
                                entry |-> nextId + n])
        /\ UNCHANGED <<pendingLogs, isProcessingPendingLogs, sessionNo, storage, attempts,
                       replayCalls, replayNoops, reloads, faults, lost, caught, raised,
                       probe, sessionStartTime, now, authHandler>>

\* logPageView called by the page
logPageView(c, pageName, pageUrl, userId, referrer) ==
    PageView(c, pageName, pageUrl, userId, referrer, MaxChainRecords)

\* ------------------------------------------------------------------ writeLog
\* variant: writeLog has no outer try/catch
writeLogPropagates_NoCatch(thrown) == thrown

\* the outer try/catch of writeLog: whatever is thrown while the log is
\* prepared, or inside the inner catch block, is logged and swallowed
writeLogPropagates(thrown) == FALSE

\* variant: the replay loop ends after its first entry (a break in the loop body)
Resume_Break(call, threw) == Idle

\* the call after its writeLog invocation came back (threw: it threw to its
\* caller). A LogFacade method is done. The replay loop goes on to the next
\* entry; its catch ends the loop, and finally drops the call when the loop is over.
Resume(call, threw) ==
    IF call.op = "replay" /\ ~threw /\ call.idx < Len(call.logs)
    THEN ReplayCall(call.logs, call.idx + 1, call.userId)
    ELSE IF call.op = "log" /\ ~threw /\ HasMore(call)
    THEN ChainCall(Head(call.rest).w, Tail(call.rest))
    ELSE Idle

\* variant: processPendingLogs has no finally block
WriteLogReturns_NoReset(c, thrown) ==
    LET threw == writeLogPropagates(thrown)
        next == Resume(calls[c], threw)
    IN  /\ calls' = [calls EXCEPT ![c] = next]
        /\ isProcessingPendingLogs' = isProcessingPendingLogs
        /\ raised' = raised \cup (IF threw THEN {"writeLog"} ELSE {})
                            \cup (IF threw /\ calls[c].op = "log" THEN {"log"} ELSE {})
        /\ UNCHANGED pageVars

\* writeLog comes back to its caller, which runs on to its next await or its end
WriteLogReturns(c, thrown) ==
    LET threw == writeLogPropagates(thrown)
        next == Resume(calls[c], threw)
    IN  /\ calls' = [calls EXCEPT ![c] = next]
        /\ isProcessingPendingLogs' =
              IF calls[c].op = "replay" /\ next.op = "idle"
              THEN FALSE ELSE isProcessingPendingLogs
        /\ raised' = raised \cup (IF threw THEN {"writeLog"} ELSE {})
                            \cup (IF threw /\ calls[c].op = "log" THEN {"log"} ELSE {})
        /\ LET tracks == /\ calls[c].op = "log"
                         /\ next.op = "log"
                         /\ Truthy(Head(calls[c].rest).page)
           IN  /\ currentPage' = IF tracks THEN Head(calls[c].rest).page ELSE currentPage
               /\ pageStartTime' = IF tracks THEN now ELSE pageStartTime

\* the addDoc request writeLog issues once the client info is there
Request(w, sid, info) ==
    LET logData == StampedData(w.logEntry.f, w.userId, sid, info)
    IN  [logEntry |-> w.logEntry, userId |-> w.userId, allowQueue |-> w.allowQueue,
         path |-> CollectionPath(w.logEntry.f.type, Get(logData, "userId")),
         data |-> cleanUndefinedValues(logData), result |-> Pending]

\* getClientInfo settles (the fetch worked or not): writeLog stamps, routes
\* and cleans the record and issues addDoc. An undefined logEntry makes the
\* read of logEntry.type throw inside the outer try.
ClientInfoSettles(c, fetchOk) ==
    /\ calls[c].op # "idle"
    /\ calls[c].pc = "fetch"
    /\ fetchOk \/ faults < MaxFaults
    /\ faults' = IF fetchOk THEN faults ELSE faults + 1
    /\ IF "logEntry" \in DOMAIN calls[c].w
       THEN /\ attempts' = Append(attempts,
                                  Request(calls[c].w, SessionId(sessionNo), getClientInfo(fetchOk)))
            /\ calls' = [calls EXCEPT ![c] = [@ EXCEPT !.pc = "addDoc"] @@ [att |-> Len(attempts) + 1]]
            /\ UNCHANGED <<isProcessingPendingLogs, caught, raised, pageVars>>
       ELSE /\ WriteLogReturns(c, TRUE)
            /\ caught' = caught \cup (IF writeLogPropagates(TRUE)
                                      THEN {"processPendingLogs"} ELSE {"writeLog"})
            /\ UNCHANGED attempts
    /\ UNCHANGED <<pendingLogs, sessionNo, storage, nextId, replayCalls, replayNoops,
                   reloads, lost, probe, envVars>>

\* addDoc resolves: nothing more to do
AddDocSucceeds(c) ==
    /\ calls[c].op # "idle"
    /\ calls[c].pc = "addDoc"
    /\ attempts' = [attempts EXCEPT ![calls[c].att].result = Ok]
    /\ WriteLogReturns(c, FALSE)
    /\ UNCHANGED <<pendingLogs, sessionNo, storage, nextId, replayCalls, replayNoops,
                   reloads, faults, lost, caught, probe, envVars>>

\* variant: the entry is put at the front of the queue (unshift for push)
QueueAfterFailure_Unshift(q, w, error) ==
    IF ShouldQueue(w.allowQueue, error)
    THEN <<[logEntry |-> w.logEntry, userId |-> w.userId]>> \o q
    ELSE q

\* variant: nothing is queued while a replay is running
QueueAfterFailure_NotWhileReplaying(q, w, error) ==
    IF ShouldQueue(w.allowQueue, error) /\ ~isProcessingPendingLogs
    THEN Append(q, [logEntry |-> w.logEntry, userId |-> w.userId])
    ELSE q

\* variant: a permission error queues the entry whoever called writeLog
QueueAfterFailure_Requeue(q, w, error) ==
    IF error.isError /\ error.words # {}
    THEN Append(q, [logEntry |-> w.logEntry, userId |-> w.userId])
    ELSE q

\* the queue after the inner catch block ran for a rejected addDoc
QueueAfterFailure(q, w, error) ==
    IF ShouldQueue(w.allowQueue, error)
    THEN Append(q, [logEntry |-> w.logEntry, userId |-> w.userId])
    ELSE q

\* addDoc rejects: the inner catch block queues the original entry with the
\* explicit userId argument and saves the queue when the error is a permission
\* error and queueing is allowed; otherwise it only logs the failure
AddDocFails(c, error, writeOk) ==
    /\ calls[c].op # "idle"
    /\ calls[c].pc = "addDoc"
    /\ writeOk \/ (faults < MaxFaults /\ ShouldQueue(calls[c].w.allowQueue, error))
    /\ faults' = IF writeOk THEN faults ELSE faults + 1
    /\ attempts' = [attempts EXCEPT ![calls[c].att].result = Failed(error)]
    /\ pendingLogs' = QueueAfterFailure(pendingLogs, calls[c].w, error)
    /\ storage' = IF ShouldQueue(calls[c].w.allowQueue, error)
                  THEN savePendingLogs(pendingLogs', storage, writeOk)
                  ELSE storage
    /\ WriteLogReturns(c, FALSE)
    /\ UNCHANGED <<sessionNo, nextId, replayCalls, replayNoops, reloads, lost, caught,
                   probe, envVars>>

\* ------------------------------------------------------------------ replay
\* variant: the copy holds every entry twice
Snapshot_Twice(q) == q \o q

\* the snapshot processPendingLogs takes: a copy of the whole queue
Snapshot(q) == q

\* variant: the guard is missing
AlreadyProcessing_Never == FALSE

\* the single-flight guard
AlreadyProcessing == isProcessingPendingLogs

\* variant: the queue is copied but neither emptied nor saved
processPendingLogs_NoClear(c, userId, writeOk) ==
    /\ FreeSlot(c)
    /\ replayCalls < MaxReplays
    /\ writeOk
    /\ replayCalls' = replayCalls + 1
    /\ IF isProcessingPendingLogs
       THEN /\ replayNoops' = replayNoops + 1
            /\ UNCHANGED <<isProcessingPendingLogs, calls>>
       ELSE /\ isProcessingPendingLogs' = (pendingLogs # <<>>)
            /\ calls' = IF pendingLogs # <<>>
                        THEN [calls EXCEPT ![c] = ReplayCall(pendingLogs, 1, userId)]
                        ELSE calls
            /\ UNCHANGED replayNoops
    /\ UNCHANGED <<pendingLogs, storage, sessionNo, attempts, nextId, reloads, faults, lost,
                   caught, raised, probe, pageVars, envVars>>

\* processPendingLogs(userId). At the guard it returns when a replay is running.
\* Otherwise it sets the flag, copies the queue, empties and saves it, and
\* enters the loop, which suspends in the writeLog of the first entry; with
\* nothing to replay it runs through to finally within the same step.
Replay(c, userId, writeOk) ==
    /\ FreeSlot(c)
    /\ writeOk \/ (faults < MaxFaults /\ ~AlreadyProcessing)
    /\ faults' = IF writeOk THEN faults ELSE faults + 1
    /\ replayCalls' = replayCalls + 1
    /\ IF AlreadyProcessing
       THEN /\ replayNoops' = replayNoops + 1
            /\ UNCHANGED <<pendingLogs, isProcessingPendingLogs, storage, calls>>
       ELSE LET logs == Snapshot(pendingLogs)
            IN  /\ pendingLogs' = <<>>
                /\ storage' = savePendingLogs(pendingLogs', storage, writeOk)
                /\ isProcessingPendingLogs' = (logs # <<>>)
                /\ calls' = IF logs # <<>>
                            THEN [calls EXCEPT ![c] = ReplayCall(logs, 1, userId)]
                            ELSE calls
                /\ UNCHANGED replayNoops
    /\ UNCHANGED <<sessionNo, attempts, nextId, reloads, lost, caught, raised, probe,
                   pageVars, sessionStartTime, now, pageCalls>>

\* processPendingLogs called by the page
processPendingLogs(c, userId, writeOk) ==
    /\ replayCalls < MaxReplays
    /\ Replay(c, userId, writeOk)
    /\ UNCHANGED authHandler

\* ------------------------------------------------------------------ reload
\* ids a running replay snapshotted and has issued no addDoc for yet
Unsent(call) ==
    IF call.op # "replay" THEN {}
    ELSE {call.logs[k].logEntry.id :
            k \in {k \in 1..Len(call.logs) :
                     /\ "logEntry" \in DOMAIN call.logs[k]
                     /\ \/ k > call.idx
                        \/ k = call.idx /\ call.pc = "fetch"}}

\* The page is reloaded (or closed and reopened): every call in flight is
\* gone, and the module builds a new Logger: new session id, flag false, and
\* the queue loaded from localStorage.
Reload(readOk) ==
    /\ reloads < MaxReloads
    /\ readOk \/ faults < MaxFaults
    /\ faults' = IF readOk THEN faults ELSE faults + 1
    /\ reloads' = reloads + 1
    /\ sessionNo' = sessionNo + 1
    /\ pendingLogs' = loadPendingLogs(storage, readOk)
    /\ isProcessingPendingLogs' = FALSE
    /\ calls' = [c \in Slots |-> Idle]
    /\ attempts' = [i \in 1..Len(attempts) |->
                      IF attempts[i].result = Pending
                      THEN [attempts[i] EXCEPT !.result = Unknown]
                      ELSE attempts[i]]
    /\ lost' = lost \cup UNION {Unsent(calls[c]) : c \in Slots}
    /\ currentPage' = ""
    /\ pageStartTime' = now
    /\ sessionStartTime' = now
    /\ authHandler' = HandlerIdle
    /\ UNCHANGED <<storage, nextId, replayCalls, replayNoops, caught, raised, probe, now,
                   pageCalls>>

\* ------------------------------------------------------------------ auth state handler
\* The callback AuthProvider registers with onAuthStateChanged, for a non-null
\* user: it reads the user's document and, when there is one, awaits logLogin,
\* logSessionStart and processPendingLogs(user.uid) in turn; when the read
\* throws it awaits logSystemError instead. Each await of a logger call is a
\* position of the handler; it goes on once that call has returned.

\* the identity provider reports the user uid
AuthStateChanged(uid) ==
    /\ authHandler.pc \in {"idle", "done"}
    /\ authHandler.events < MaxAuthEvents
    /\ authHandler' = [pc |-> "getDoc", uid |-> uid, awaits |-> 0,
                       events |-> authHandler.events + 1, doc |-> Undefined,
                       called |-> Undefined]
    /\ UNCHANGED <<pendingLogs, isProcessingPendingLogs, sessionNo, storage, calls,
                   attempts, nextId, replayCalls, replayNoops, reloads, faults, lost,
                   caught, raised, probe, pageVars, sessionStartTime, now, pageCalls>>

\* the logger call that built entry id has returned to the handler
Returned(id) ==
    \A c \in Slots : ~(calls[c].op = "log" /\ calls[c].w.logEntry.id = id)

\* logLogin(true, user.email, user.uid, userData.role)
RestoredLogin(uid) ==
    [success |-> "true", email |-> "a@b.com", userId |-> uid, userRole |-> "user",
     errorMessage |-> Undefined]

\* getDoc resolves with an existing document: the handler calls logLogin
UserDocFound(c) ==
    /\ authHandler.pc = "getDoc"
    /\ BeginLog(c, LoginFields(RestoredLogin(authHandler.uid)), authHandler.uid)
    /\ authHandler' = [authHandler EXCEPT !.pc = "logLogin", !.awaits = nextId + 1,
                                          !.doc = "exists"]

\* getDoc resolves with no document: the handler logs nothing and ends
UserDocMissing ==
    /\ authHandler.pc = "getDoc"
    /\ authHandler' = [authHandler EXCEPT !.pc = "done", !.doc = "missing"]
    /\ UNCHANGED <<pendingLogs, isProcessingPendingLogs, sessionNo, storage, calls,
                   attempts, nextId, replayCalls, replayNoops, reloads, faults, lost,
                   caught, raised, probe, pageVars, sessionStartTime, now, pageCalls>>

\* getDoc rejects: the catch block calls logSystemError with the uid
GetDocFails(c) ==
    /\ authHandler.pc = "getDoc"
    /\ BeginLog(c, SystemErrorFields(authHandler.uid), authHandler.uid)
    /\ authHandler' = [authHandler EXCEPT !.pc = "logSystemError", !.awaits = nextId + 1,
                                          !.doc = "throws"]

\* logLogin has returned: the handler calls logSessionStart
AfterLogLogin(c) ==
    /\ authHandler.pc = "logLogin"
    /\ Returned(authHandler.awaits)
    /\ BeginLog(c, SessionStartFields, Undefined)
    /\ authHandler' = [authHandler EXCEPT !.pc = "logSessionStart", !.awaits = nextId + 1]

\* variant: the handler ends after logSessionStart
AfterLogSessionStart_NoReplay(c) ==
    /\ authHandler.pc = "logSessionStart"
    /\ Returned(authHandler.awaits)
    /\ FreeSlot(c)
    /\ authHandler' = [authHandler EXCEPT !.pc = "done"]
    /\ UNCHANGED <<pendingLogs, isProcessingPendingLogs, sessionNo, storage, calls,
                   attempts, nextId, replayCalls, replayNoops, reloads, faults, lost,
                   caught, raised, probe, pageVars, sessionStartTime, now, pageCalls>>

\* logSessionStart has returned: the handler calls processPendingLogs(user.uid);
\* what it does after that call touches nothing of the logger
AfterLogSessionStart(c) ==
    /\ authHandler.pc = "logSessionStart"
    /\ Returned(authHandler.awaits)
    /\ Replay(c, authHandler.uid, TRUE)
    /\ authHandler' = [authHandler EXCEPT !.pc = "done", !.called = authHandler.uid]

\* logSystemError has returned: the handler ends
AfterLogSystemError ==
    /\ authHandler.pc = "logSystemError"
    /\ Returned(authHandler.awaits)
    /\ authHandler' = [authHandler EXCEPT !.pc = "done"]
    /\ UNCHANGED <<pendingLogs, isProcessingPendingLogs, sessionNo, storage, calls,
                   attempts, nextId, replayCalls, replayNoops, reloads, faults, lost,
                   caught, raised, probe, pageVars, sessionStartTime, now, pageCalls>>

\* ------------------------------------------------------------------ specifications
\* The nominal environment: the client-info lookup answers, localStorage reads
\* and writes succeed and only the logger writes the item; addDoc may be
\* rejected, on permission grounds or otherwise.
Next ==
    \/ \E c \in Slots, a \in LoginArgs : logLogin(c, a)
    \/ \E c \in Slots : logSessionStart(c)
    \/ \E c \in Slots, u \in OptLogUsers : logSystemError(c, u)
    \/ \E c \in Slots, u \in LogUsers : logBookView(c, u, Undefined)
    \/ \E c \in Slots : ClientInfoSettles(c, TRUE)
    \/ \E c \in Slots : AddDocSucceeds(c)
    \/ \E c \in Slots, e \in {PermissionDenied, NetworkError} : AddDocFails(c, e, TRUE)
    \/ \E c \in Slots, u \in ReplayUsers : processPendingLogs(c, u, TRUE)
    \/ Reload(TRUE)

Spec == Init /\ [][Next]_vars

\* The faulty environment: besides addDoc rejections, the client-info fetch may
\* fail, localStorage reads and writes may throw, and the item found at start
\* may have been written by something else: a text that does not parse, or an
\* array whose element has no logEntry.
TamperedItems == {Garbage, JsonText(<<[userId |-> "u1"]>>)}

\* the login attempt logged before any identity is known
FaultLoginArgs == {a \in LoginArgs : a.userId = Undefined}

InitFaults ==
    /\ \E st \in {NoItem} \cup TamperedItems, readOk \in BOOLEAN :
          /\ readOk \/ st = NoItem
          /\ Constructed(st, readOk)
    /\ probe = NoProbe

NextFaults ==
    \/ \E c \in Slots, a \in FaultLoginArgs : logLogin(c, a)
    \/ \E c \in Slots, u \in LogUsers : logBookView(c, u, Undefined)
    \/ \E c \in Slots, ok \in BOOLEAN : ClientInfoSettles(c, ok)
    \/ \E c \in Slots : AddDocSucceeds(c)
    \/ \E c \in Slots, e \in {PermissionDenied, NetworkError}, ok \in BOOLEAN :
          AddDocFails(c, e, ok)
    \/ \E c \in Slots, ok \in BOOLEAN : processPendingLogs(c, "u2", ok)
    \/ \E ok \in BOOLEAN : Reload(ok)

SpecFaults == InitFaults /\ [][NextFaults]_vars

\* ------------------------------------------------------------------ sign-in
\* The sign-in flow: login attempts logged before any identity is known, an
\* auth state change, and the handler's run. Every promise the handler and the
\* logger await settles, and a continuation that can run does run.
NextAuth ==
    \/ \E c \in Slots, a \in FaultLoginArgs : logLogin(c, a)
    \/ \E u \in LogUsers : AuthStateChanged(u)
    \/ \E c \in Slots : UserDocFound(c)
    \/ UserDocMissing
    \/ \E c \in Slots : GetDocFails(c)
    \/ \E c \in Slots : AfterLogLogin(c)
    \/ \E c \in Slots : AfterLogSessionStart(c)
    \/ AfterLogSystemError
    \/ \E c \in Slots : ClientInfoSettles(c, TRUE)
    \/ \E c \in Slots : AddDocSucceeds(c)
    \/ \E c \in Slots, e \in {PermissionDenied, NetworkError} : AddDocFails(c, e, TRUE)

\* the awaited promise of some suspended call settles
Settles ==
    \E c \in Slots :
        \/ ClientInfoSettles(c, TRUE)
        \/ AddDocSucceeds(c)
        \/ \E e \in {PermissionDenied, NetworkError} : AddDocFails(c, e, TRUE)

\* the handler takes its next step
HandlerRuns ==
    \/ \E c \in Slots : UserDocFound(c) \/ GetDocFails(c)
    \/ UserDocMissing
    \/ \E c \in Slots : AfterLogLogin(c) \/ AfterLogSessionStart(c)
    \/ AfterLogSystemError

SpecAuth == Init /\ [][NextAuth]_vars /\ WF_vars(Settles) /\ WF_vars(HandlerRuns)

\* ------------------------------------------------------------------ page views and logout
\* the clock advances by half a second or a second
Tick(d) ==
    /\ now + d <= Epoch + MaxElapsed
    /\ now' = now + d
    /\ UNCHANGED <<pendingLogs, isProcessingPendingLogs, sessionNo, storage, calls,
                   attempts, nextId, replayCalls, replayNoops, reloads, faults, lost,
                   caught, raised, probe, pageVars, sessionStartTime, authHandler,
                   pageCalls>>

\* The user moves between pages and logs out, while time passes and the
\* writes settle.
NextPages ==
    \/ \E c \in Slots, p \in Pages, u \in LogUsers : logPageView(c, p.name, p.url, u, Undefined)
    \/ \E c \in Slots, u \in LogUsers : logLogout(c, u, "user")
    \/ \E d \in {500, 1000} : Tick(d)
    \/ \E c \in Slots : ClientInfoSettles(c, TRUE)
    \/ \E c \in Slots : AddDocSucceeds(c)
    \/ \E c \in Slots, e \in {PermissionDenied, NetworkError} : AddDocFails(c, e, TRUE)

SpecPages == Init /\ [][NextPages]_vars

\* ------------------------------------------------------------------ quick page changes
\* The user moves from page to page, the effect of each page calling
\* logPageView without awaiting it, so that a call may start while an earlier
\* one is suspended in a write. Every write succeeds.
NextVisits ==
    \/ \E c \in Slots, p \in Pages, u \in LogUsers :
          PageView(c, p.name, p.url, u, Undefined, MaxVisitRecords)
    \/ Tick(1500)
    \/ \E c \in Slots : ClientInfoSettles(c, TRUE)
    \/ \E c \in Slots : AddDocSucceeds(c)

SpecVisits == Init /\ [][NextVisits]_vars

\* ------------------------------------------------------------------ the one-record methods
\* Every LogFacade method that writes one record per call, called as the pages
\* call them, with the writes settling in any order.
NextFacade ==
    \/ \E c \in Slots, a \in LoginArgs : logLogin(c, a)
    \/ \E c \in Slots : logSessionStart(c)
    \/ \E c \in Slots, u \in OptLogUsers : logUnauthorizedAccess(c, u)
    \/ \E c \in Slots, u \in OptLogUsers : logSystemError(c, u)
    \/ \E c \in Slots, code \in {200, 500}, u \in OptLogUsers, p \in {Undefined, "{email}"} :
          logApiRequest(c, code, u, p)
    \/ \E c \in Slots, g \in {Undefined, "all", "fiction"}, u \in LogUsers : logBookSearch(c, g, u)
    \/ \E c \in Slots, u \in LogUsers, v \in {Undefined, "all"} : logFilterChange(c, u, v)
    \/ \E c \in Slots, u \in LogUsers, src \in {Undefined, "browse"} : logBookView(c, u, src)
    \/ \E c \in Slots, u \in LogUsers :
          \/ logBorrowRequest(c, "submitted", u, Undefined)
          \/ logBorrowRequest(c, "failed", u, "Book already requested")
    \/ \E c \in Slots, u \in LogUsers, st \in {Undefined, "failed"} : logReturnRequest(c, u, st)
    \/ \E c \in Slots, u \in LogUsers : logViewHistory(c, u)
    \/ \E c \in Slots, u \in LogUsers : logTabSwitch(c, u)
    \/ \E c \in Slots, u \in LogUsers, el \in {Undefined, "clear-filters-btn"} :
          logUserInteraction(c, u, el)
    \/ \E c \in Slots : ClientInfoSettles(c, TRUE)
    \/ \E c \in Slots : AddDocSucceeds(c)
    \/ \E c \in Slots, e \in {PermissionDenied, NetworkError} : AddDocFails(c, e, TRUE)

SpecFacade == Init /\ [][NextFacade]_vars

\* ------------------------------------------------------------------ logging during a replay
\* The page was loaded over an item that holds one entry an earlier instance
\* had queued; book views are logged while the queue is replayed.
EarlierEntry == [logEntry |-> NewEntry(0, BookViewFields("u1", Undefined)), userId |-> "u1"]

InitOverlap ==
    /\ Constructed(JsonText(Stringify(<<EarlierEntry>>)), TRUE)
    /\ probe = NoProbe

NextOverlap ==
    \/ \E c \in Slots, u \in LogUsers : logBookView(c, u, Undefined)
    \/ \E c \in Slots : ClientInfoSettles(c, TRUE)
    \/ \E c \in Slots : AddDocSucceeds(c)
    \/ \E c \in Slots, e \in {PermissionDenied, NetworkError} : AddDocFails(c, e, TRUE)
    \/ \E c \in Slots : processPendingLogs(c, "u2", TRUE)

SpecOverlap == InitOverlap /\ [][NextOverlap]_vars

\* ------------------------------------------------------------------ rejections of every shape
\* Book views are logged and the queue is replayed, while addDoc is rejected
\* with whatever it may throw.
NextErrors ==
    \/ \E c \in Slots, u \in LogUsers : logBookView(c, u, Undefined)
    \/ \E c \in Slots : ClientInfoSettles(c, TRUE)
    \/ \E c \in Slots : AddDocSucceeds(c)
    \/ \E c \in Slots, e \in ErrorShapes : AddDocFails(c, e, TRUE)
    \/ \E c \in Slots : processPendingLogs(c, "u2", TRUE)

SpecErrors == Init /\ [][NextErrors]_vars

\* ------------------------------------------------------------------ cleaning on its own
\* the values cleanUndefinedValues is applied to: scalars, null and undefined,
\* and objects and arrays of them nested MaxDepth deep, MaxWidth wide
Leaves == {ScalarValue("x"), NullValue, UndefinedValue}

\* property names, and the ways an object can hold some of them in order
KeyNames == <<"a", "b", "c", "d">>
Key(i) == IF i <= Len(KeyNames) THEN KeyNames[i] ELSE ToString(i)

KeySeqs == {[i \in 1..Len(is) |-> Key(is[i])] :
               is \in {is \in UNION {[1..n -> 1..MaxWidth] : n \in 0..MaxWidth} :
                          \A i, j \in 1..Len(is) : i < j => is[i] < is[j]}}

ObjectsOf(V) ==
    UNION {{ObjectValue([i \in 1..Len(ks) |-> Entry(ks[i], f[i])]) : f \in [1..Len(ks) -> V]} :
           ks \in KeySeqs}

ArraysOf(V) ==
    UNION {{ArrayValue([i \in 1..n |-> Entry("", f[i])]) : f \in [1..n -> V]} :
           n \in 0..MaxWidth}

RECURSIVE ValuesOfDepth(_)
ValuesOfDepth(d) ==
    IF d = 0 THEN Leaves
    ELSE LET V == ValuesOfDepth(d - 1) IN V \cup ObjectsOf(V) \cup ArraysOf(V)

InitClean ==
    /\ Constructed(NoItem, TRUE)
    /\ \E v \in ValuesOfDepth(MaxDepth) : probe = [done |-> FALSE, in |-> v]

\* cleanUndefinedValues applied to the probe's input
Clean ==
    /\ ~probe.done
    /\ probe' = [done |-> TRUE, in |-> probe.in, out |-> cleanUndefinedValuesDeep(probe.in)]
    /\ UNCHANGED <<pendingLogs, isProcessingPendingLogs, sessionNo, storage, calls,
                   attempts, nextId, replayCalls, replayNoops, reloads, faults, lost,
                   caught, raised, pageVars, envVars>>

NextClean == Clean

SpecClean == InitClean /\ [][NextClean]_vars

\* ------------------------------------------------------------------ routing on its own
\* a record kind, the explicit userId argument and the userId property of the entry
RouteInputs ==
    [type : Kinds, userId : ReplayUsers \cup {Undefined},
     embedded : ReplayUsers \cup {Undefined}]

InitRoute ==
    /\ Constructed(NoItem, TRUE)
    /\ \E i \in RouteInputs : probe = [done |-> FALSE, in |-> i]

\* writeLog's stamping and routing applied to the probe's input
Route ==
    /\ ~probe.done
    /\ LET i == probe.in
           entry == NewEntry(0, [type |-> i.type, userId |-> i.embedded,
                                 timestamp |-> ServerTimestamp])
           request == Request(Frame(entry, i.userId, TRUE), SessionId(sessionNo),
                              getClientInfo(TRUE))
       IN  probe' = [done |-> TRUE, in |-> i, path |-> request.path, data |-> request.data]
    /\ UNCHANGED <<pendingLogs, isProcessingPendingLogs, sessionNo, storage, calls,
                   attempts, nextId, replayCalls, replayNoops, reloads, faults, lost,
                   caught, raised, pageVars, envVars>>

NextRoute == Route

SpecRoute == InitRoute /\ [][NextRoute]_vars

\* ------------------------------------------------------------------ properties
\* ids of the entries of a queue
QueueIds(q) == {q[i].logEntry.id : i \in {i \in 1..Len(q) : "logEntry" \in DOMAIN q[i]}}

\* the queue the localStorage item parses to
StoredQueue == IF storage.kind = "text" THEN storage.json ELSE <<>>

\* equality of two objects that takes an undefined-valued property for a
\* missing one and an object for its own enumerable properties
PlainValue(v) == IF v = ServerTimestamp THEN TimestampPlain ELSE v
SameObject(o, j) ==
    \A k \in DOMAIN o \cup DOMAIN j : PlainValue(Get(o, k)) = PlainValue(Get(j, k))
SameEntry(e, j) ==
    /\ e.logEntry.id = j.logEntry.id
    /\ SameObject(e.logEntry.f, j.logEntry.f)
    /\ Get(e, "userId") = Get(j, "userId")
SameEntries(q, r) ==
    /\ Len(q) = Len(r)
    /\ \A i \in 1..Len(q) : SameEntry(q[i], r[i])

\* the addDoc requests a replay issued
IsReplayAttempt(a) == ~a.allowQueue
ReplayAttemptsFor(atts, ids) ==
    SelectSeq(atts, LAMBDA a : IsReplayAttempt(a) /\ a.logEntry.id \in ids)

\* ids that have been put in the queue at some time
EverQueued ==
    {attempts[i].logEntry.id :
        i \in {i \in 1..Len(attempts) :
                 /\ attempts[i].allowQueue
                 /\ attempts[i].result.state = "failed"
                 /\ attempts[i].result.error.words # {}}}

\* ids whose resend by a replay succeeded
Resent ==
    {attempts[i].logEntry.id :
        i \in {i \in 1..Len(attempts) :
                 IsReplayAttempt(attempts[i]) /\ attempts[i].result = Ok}}

\* call c's addDoc is rejected in this step
RejectedNow(c) ==
    /\ calls[c].op # "idle"
    /\ calls[c].pc = "addDoc"
    /\ attempts'[calls[c].att].result.state = "failed"

\* C1: when the addDoc of a writeLog that may queue is rejected with a
\* permission-shaped error, exactly one entry is appended at the end of the
\* queue, made of the original entry and the resolved user id (the explicit
\* argument, else the entry's own); the item then holds the whole queue and the
\* call returns without raising.
C1_EnqueueOnDenied ==
    [][\A c \in Slots :
          (/\ RejectedNow(c)
           /\ attempts[calls[c].att].allowQueue
           /\ attempts'[calls[c].att].result.error.words # {})
          => LET a == attempts[calls[c].att]
             IN  /\ pendingLogs' =
                       Append(pendingLogs,
                              [logEntry |-> a.logEntry,
                               userId |-> Or(a.userId, Get(a.logEntry.f, "userId"))])
                 /\ SameEntries(pendingLogs', StoredQueue')
                 /\ raised' = raised
                 /\ calls'[c].op = "idle"]_vars

C1_Witness ==
    /\ Len(pendingLogs) = 2
    /\ SameEntries(pendingLogs, StoredQueue)
    /\ raised = {}
    /\ \E i \in 1..Len(attempts) :
          /\ attempts[i].allowQueue
          /\ attempts[i].result = Failed(PermissionDenied)
          /\ pendingLogs[2].logEntry = attempts[i].logEntry

\* a processPendingLogs call c that was in its loop ends in this step
ReplayEndsNow(c) ==
    /\ calls[c].op = "replay"
    /\ calls'[c].op = "idle"
    /\ reloads' = reloads

\* C2 as stated: when a replay ends, the persisted queue is empty and the
\* addDocs issued for the snapshot are its entries, once each, in order.
C2_Original ==
    [][\A c \in Slots :
          ReplayEndsNow(c)
          => /\ StoredQueue' = <<>>
             /\ LET logs == calls[c].logs
                    sent == ReplayAttemptsFor(attempts', QueueIds(logs))
                IN  /\ Len(sent) = Len(logs)
                    /\ \A i \in 1..Len(logs) : sent[i].logEntry = logs[i].logEntry]_vars

\* C2, amended: when a replay ends, neither the persisted queue nor the
\* in-memory queue holds an entry of the snapshot (they may hold entries that
\* other log calls queued meanwhile), and the addDocs issued for the snapshot
\* are its entries, once each, in queue order.
C2_ReplayDrainsSnapshot ==
    [][\A c \in Slots :
          ReplayEndsNow(c)
          => LET logs == calls[c].logs
                 sent == ReplayAttemptsFor(attempts', QueueIds(logs))
             IN  /\ QueueIds(StoredQueue') \cap QueueIds(logs) = {}
                 /\ QueueIds(pendingLogs') \cap QueueIds(logs) = {}
                 /\ Len(sent) = Len(logs)
                 /\ \A i \in 1..Len(logs) : sent[i].logEntry = logs[i].logEntry]_vars

\* a replay of two entries has ended: both were sent, in order
C2_Witness ==
    /\ ~isProcessingPendingLogs
    /\ \A c \in Slots : calls[c].op = "idle"
    /\ reloads = 0
    /\ Len(ReplayAttemptsFor(attempts, {1, 2})) = 2
    /\ ReplayAttemptsFor(attempts, {1, 2})[1].logEntry.id = 1
    /\ StoredQueue = <<>>
    /\ storage.kind = "text"

\* C3: a processPendingLogs call made while a replay is running returns at
\* once: it issues no addDoc and leaves the queue, the item and the running
\* calls as they are.
C3_SingleFlight ==
    [][(replayCalls' # replayCalls /\ isProcessingPendingLogs)
       => UNCHANGED <<pendingLogs, storage, attempts, calls, isProcessingPendingLogs,
                      raised>>]_vars

\* a second call was turned away while the first replay is still in its loop
C3_Witness ==
    /\ isProcessingPendingLogs
    /\ replayNoops > 0
    /\ \E c \in Slots : calls[c].op = "replay"

\* C4 as stated: an entry that was queued and whose resend has not succeeded
\* is still in the in-memory queue and in the item.
C4_Original ==
    \A id \in EverQueued \ Resent :
        id \in QueueIds(pendingLogs) /\ id \in QueueIds(StoredQueue)

\* C4, amended: an entry leaves the in-memory queue only in the step in which
\* a processPendingLogs call passes the guard, which empties the queue and the
\* item before any resend of the entry has been issued; a reload takes nothing
\* out of the queue, and an entry that has left the queue never comes back,
\* whatever becomes of its resend.
C4_RemovedAtReplayStart ==
    [][/\ \A id \in QueueIds(pendingLogs) \ QueueIds(pendingLogs') :
             /\ replayCalls' = replayCalls + 1
             /\ ~isProcessingPendingLogs
             /\ pendingLogs' = <<>>
             /\ StoredQueue' = <<>>
             /\ ReplayAttemptsFor(attempts', {id}) = <<>>
       /\ \A id \in EverQueued \ QueueIds(pendingLogs) : id \notin QueueIds(pendingLogs')]_vars

\* a replay has taken two entries out of the queue and has sent neither yet
C4_Witness ==
    \E c \in Slots :
        /\ calls[c].op = "replay"
        /\ Len(calls[c].logs) = 2
        /\ calls[c].idx = 1
        /\ calls[c].pc = "fetch"
        /\ pendingLogs = <<>>
        /\ StoredQueue = <<>>

\* C5: whatever the client-info fetch, addDoc and the localStorage calls do,
\* and whatever the item found at start holds, neither writeLog nor a LogFacade
\* method nor processPendingLogs throws to its caller.
C5_NeverRaises == raised = {}

\* a replay ran into a stored entry without logEntry, writeLog's outer catch
\* swallowed the TypeError, and every call has returned
C5_Witness ==
    /\ "writeLog" \in caught
    /\ faults > 0
    /\ replayCalls > 0
    /\ \A c \in Slots : calls[c].op = "idle"
    /\ raised = {}

\* the destination the routing rule names for a kind and a resolved user id
ClaimedRoute(type, resolved) ==
    CASE type \in {"login", "logout"} -> <<"authLogs">>
      [] type \in {"system_error", "unauthorized_access"} -> <<"systemLogs">>
      [] OTHER -> IF resolved # Undefined
                  THEN <<"users", resolved, "logs">>
                  ELSE <<"systemLogs">>

\* C6: for every kind and every explicit and embedded user id, writeLog routes
\* login and logout to authLogs, system_error and unauthorized_access to
\* systemLogs, any other kind to users/{id}/logs of the resolved id when there
\* is one and to systemLogs when there is none.
C6_Routing ==
    probe.done =>
        probe.path = ClaimedRoute(probe.in.type, Or(probe.in.userId, probe.in.embedded))

\* a book_view with no explicit id is routed by the id its entry carries
C6_Witness ==
    /\ probe.done
    /\ probe.in.type = "book_view"
    /\ probe.in.userId = Undefined
    /\ probe.in.embedded = "u1"
    /\ probe.path = <<"users", "u1", "logs">>

\* C7: while a replay is in its loop, and so at each of its addDocs, neither
\* the in-memory queue nor the persisted queue holds an entry of its snapshot:
\* the queue was emptied and the empty queue saved on entry.
C7_ClearedBeforeWrites ==
    \A c \in Slots :
        calls[c].op = "replay"
        => /\ storage.kind = "text"
           /\ QueueIds(calls[c].logs) \cap QueueIds(StoredQueue) = {}
           /\ QueueIds(calls[c].logs) \cap QueueIds(pendingLogs) = {}

\* the first addDoc of a replay is in flight and the item holds an empty queue
C7_Witness ==
    \E c \in Slots :
        /\ calls[c].op = "replay"
        /\ calls[c].idx = 1
        /\ calls[c].pc = "addDoc"
        /\ IsReplayAttempt(attempts[calls[c].att])
        /\ storage = JsonText(<<>>)

\* C8: an entry of a replay's snapshot for which no addDoc had been issued when
\* the page was reloaded is in neither queue afterwards and no replay ever sends
\* it; and no entry is sent by a replay more than once.
C8_CrashLosesRest ==
    /\ \A id \in lost :
          /\ id \notin QueueIds(pendingLogs)
          /\ id \notin QueueIds(StoredQueue)
          /\ ReplayAttemptsFor(attempts, {id}) = <<>>
    /\ \A id \in 1..nextId : Len(ReplayAttemptsFor(attempts, {id})) <= 1

\* a reload cut a replay after its first entry was resent; a later replay ran
C8_Witness ==
    /\ reloads = 1
    /\ lost = {2}
    /\ 1 \in Resent
    /\ replayCalls = 2
    /\ replayNoops = 0

\* C9: the queue a new Logger loads from localStorage has the entries the old
\* instance had queued, in the same order (each with the same properties, an
\* undefined-valued property counting as a missing one).
C9_ReloadRoundTrip ==
    [][reloads' # reloads => SameEntries(pendingLogs, pendingLogs')]_vars

\* a new instance holds two entries that the previous instance queued
C9_Witness ==
    /\ reloads = 1
    /\ sessionNo = 2
    /\ Len(pendingLogs) = 2
    /\ QueueIds(pendingLogs) = EverQueued
    /\ Get(pendingLogs[1], "userId") # Get(pendingLogs[2], "userId")

\* call c, a replay, issues the addDoc of its current entry in this step
ReplaySendsNow(c) ==
    /\ calls[c].op = "replay"
    /\ calls[c].pc = "fetch"
    /\ calls'[c].op = "replay"
    /\ calls'[c].pc = "addDoc"
    /\ Len(attempts') = Len(attempts) + 1

\* C10: a replay writes each entry of its snapshot with queueing disabled; the
\* record sent carries as userId the entry's stored identifier if it has one,
\* else the userId argument of the replay call.
C10_ReplayIdentity ==
    [][\A c \in Slots :
          ReplaySendsNow(c)
          => LET entry == calls[c].logs[calls[c].idx]
                 a == attempts'[Len(attempts')]
             IN  /\ ~a.allowQueue
                 /\ a.logEntry = entry.logEntry
                 /\ Get(a.data, "userId") =
                       IF Get(entry, "userId") # Undefined
                       THEN entry.userId ELSE calls[c].userId]_vars

\* a replay called with u2 has sent one entry under its stored id u1 and is
\* sending an entry without stored id under u2
C10_Witness ==
    \E c \in Slots :
        /\ calls[c].op = "replay"
        /\ calls[c].userId = "u2"
        /\ calls[c].idx = 2
        /\ calls[c].pc = "addDoc"
        /\ Get(calls[c].logs[1], "userId") = "u1"
        /\ Get(calls[c].logs[2], "userId") = Undefined
        /\ attempts[calls[c].att].data.userId = "u2"
        /\ \E i \in 1..Len(attempts) :
              /\ IsReplayAttempt(attempts[i])
              /\ attempts[i].logEntry = calls[c].logs[1].logEntry
              /\ attempts[i].data.userId = "u1"

\* the failed login attempt logged before any identity is known
IsAnonymousLogin(entry) ==
    /\ entry.f.type = "login"
    /\ Get(entry.f, "userId") = Undefined

\* C11: when the addDoc of logLogin(false, "a@b.com", undefined, undefined,
\* "bad password") is denied while the queue is empty, the queue then holds
\* exactly one entry, a login record with these success, email and errorMessage
\* values; a later replay for user u sends that record to authLogs with userId
\* u, and when the resend has succeeded and nothing else was queued, the queue
\* and the item hold no entry.
C11_LoginScenario ==
    [][\A c \in Slots :
          /\ (/\ RejectedNow(c)
              /\ calls[c].op = "log"
              /\ IsAnonymousLogin(calls[c].w.logEntry)
              /\ calls[c].w.userId = Undefined
              /\ attempts'[calls[c].att].result.error.words # {}
              /\ pendingLogs = <<>>)
             => /\ Len(pendingLogs') = 1
                /\ pendingLogs'[1].logEntry.f.type = "login"
                /\ pendingLogs'[1].logEntry.f.success = "false"
                /\ pendingLogs'[1].logEntry.f.email = "a@b.com"
                /\ pendingLogs'[1].logEntry.f.errorMessage = "bad password"
          /\ (/\ ReplaySendsNow(c)
              /\ IsAnonymousLogin(calls[c].logs[calls[c].idx].logEntry)
              /\ Get(calls[c].logs[calls[c].idx], "userId") = Undefined)
             => /\ attempts'[Len(attempts')].data.userId = calls[c].userId
                /\ attempts'[Len(attempts')].data.errorMessage = "bad password"
                /\ attempts'[Len(attempts')].path = <<"authLogs">>
          /\ (/\ ReplayEndsNow(c)
              /\ Len(calls[c].logs) = 1
              /\ IsAnonymousLogin(calls[c].logs[1].logEntry)
              /\ attempts'[calls[c].att].result = Ok
              /\ EverQueued \subseteq QueueIds(calls[c].logs))
             => /\ pendingLogs' = <<>>
                /\ StoredQueue' = <<>>]_vars

\* the denied login attempt was queued alone, a replay for u2 has resent it
\* with userId u2, the resend succeeded and the queue is empty
C11_Witness ==
    /\ pendingLogs = <<>>
    /\ storage = JsonText(<<>>)
    /\ \A c \in Slots : calls[c].op = "idle"
    /\ Len(attempts) = 2
    /\ IsAnonymousLogin(attempts[1].logEntry)
    /\ attempts[1].result = Failed(PermissionDenied)
    /\ "userId" \notin DOMAIN attempts[1].data
    /\ attempts[2].logEntry = attempts[1].logEntry
    /\ IsReplayAttempt(attempts[2])
    /\ attempts[2].data.userId = "u2"
    /\ attempts[2].result = Ok

\* call c, suspended in writeLog, takes a step of writeLog now
WriteLogStep(c) ==
    /\ calls[c].op # "idle"
    /\ calls'[c] # calls[c]
    /\ reloads' = reloads

\* C12: a step of writeLog changes the queue or the localStorage item only
\* when it is the rejection of an addDoc with a permission-shaped error in an
\* invocation that may queue; a resolved addDoc, any other rejection, and any
\* rejection in an invocation with queueing off leave both as they are.
C12_FrameEffect ==
    [][\A c \in Slots :
          (/\ WriteLogStep(c)
           /\ ~(/\ RejectedNow(c)
                /\ attempts[calls[c].att].allowQueue
                /\ attempts'[calls[c].att].result.error.words # {}))
          => /\ pendingLogs' = pendingLogs
             /\ storage' = storage]_vars

\* a resend was denied with queueing off and an ordinary write failed on the
\* network: neither is in the queue
C12_Witness ==
    /\ pendingLogs = <<>>
    /\ storage = JsonText(<<>>)
    /\ \E i, j \in 1..Len(attempts) :
          /\ IsReplayAttempt(attempts[i])
          /\ attempts[i].result = Failed(PermissionDenied)
          /\ attempts[j].allowQueue
          /\ attempts[j].result = Failed(NetworkError)

\* C13 as stated: a run of the handler for a non-null user that has ended has
\* called processPendingLogs with the user's uid.
C13_Original ==
    authHandler.pc = "done" => authHandler.called = authHandler.uid

\* C13, amended: when the handler's read of the user's document finds one, the
\* handler eventually calls processPendingLogs with the user's uid.
C13_ReplayWhenDocExists ==
    (authHandler.doc = "exists")
        ~> (authHandler.pc = "done" /\ authHandler.called = authHandler.uid)

\* the handler has called processPendingLogs(uid) after its logLogin and
\* logSessionStart, and that replay is resending an entry queued before sign-in
C13_Witness ==
    /\ authHandler.pc = "done"
    /\ authHandler.doc = "exists"
    /\ authHandler.called = "u1"
    /\ replayCalls = 1
    /\ \E c \in Slots : calls[c].op = "replay" /\ calls[c].userId = "u1"
    /\ \E i, j \in 1..Len(attempts) :
          /\ attempts[i].logEntry.f.type = "login" /\ attempts[i].data.success = "true"
          /\ attempts[j].logEntry.f.type = "session_start"
          /\ i < j

\* a logPageView call starts in slot c in this step
PageStarts(c) ==
    /\ calls[c].op = "idle"
    /\ calls'[c].op = "log"
    /\ Len(pageCalls') = Len(pageCalls) + 1

\* the writeLog of the first of two records of a call in slot c returns in
\* this step, and the call goes on to its second record
SecondRecordStarts(c) ==
    /\ calls[c].op = "log"
    /\ HasMore(calls[c])
    /\ calls[c].pc = "addDoc"
    /\ calls'[c] # calls[c]
    /\ reloads' = reloads

\* the addDoc requests issued so far for entry id
AttemptsOf(atts, id) == SelectSeq(atts, LAMBDA a : a.logEntry.id = id)

\* C14 as stated: a logPageView call that finds a tracked page entered at least
\* 1000 ms ago, exactly 1000 ms included, writes a trailing record first.
C14_Original ==
    [][\A c \in Slots :
          (PageStarts(c) /\ currentPage # "" /\ now - pageStartTime >= 1000)
          => /\ pageCalls'[Len(pageCalls')].trailing # 0
             /\ Get(calls'[c].w.logEntry.f, "timeSpent") # Undefined]_vars

\* C14, amended: a logPageView call that finds a tracked page entered more than
\* 1000 ms ago first writes a trailing record for that page with the time
\* spent, and once that write has finished makes the new page current, resets
\* pageStartTime and writes the new page's entry record; with at most 1000 ms
\* elapsed, or no tracked page, it writes no trailing record, and makes the new
\* page current and resets pageStartTime at once.
C14_TrailingAboveThreshold ==
    [][\A c \in Slots :
          /\ PageStarts(c)
             => LET rec == pageCalls'[Len(pageCalls')]
                    f == calls'[c].w.logEntry.f
                IN  IF currentPage # "" /\ now - pageStartTime > 1000
                    THEN /\ rec.trailing = calls'[c].w.logEntry.id
                         /\ f.type = "page_view"
                         /\ f.pageName = currentPage
                         /\ Get(f, "timeSpent") = ToString(now - pageStartTime)
                         /\ HasMore(calls'[c])
                         /\ Len(calls'[c].rest) = 1
                         /\ UNCHANGED pageVars
                    ELSE /\ rec.trailing = 0
                         /\ rec.entry = calls'[c].w.logEntry.id
                         /\ f.pageName = rec.page
                         /\ Get(f, "timeSpent") = Undefined
                         /\ ~HasMore(calls'[c])
                         /\ currentPage' = rec.page
                         /\ pageStartTime' = now
          /\ (SecondRecordStarts(c) /\ calls[c].w.logEntry.f.type = "page_view")
             => /\ attempts'[calls[c].att].result.state \in {"ok", "failed"}
                /\ calls'[c].op = "log"
                /\ calls'[c].pc = "fetch"
                /\ ~HasMore(calls'[c])
                /\ AttemptsOf(attempts', calls'[c].w.logEntry.id) = <<>>
                /\ Get(calls'[c].w.logEntry.f, "timeSpent") = Undefined
                /\ \E k \in 1..Len(pageCalls) :
                      /\ pageCalls[k].trailing = calls[c].w.logEntry.id
                      /\ pageCalls[k].entry = calls'[c].w.logEntry.id
                      /\ calls'[c].w.logEntry.f.pageName = pageCalls[k].page
                      /\ currentPage' = pageCalls[k].page
                /\ pageStartTime' = now]_vars

\* Books was opened 1500 ms after Dashboard: the trailing record for Dashboard
\* was written, then Books became the current page and its entry was written
C14_Witness ==
    /\ \A c \in Slots : calls[c].op = "idle"
    /\ Len(pageCalls) = 2
    /\ pageCalls[1].page = "Dashboard"
    /\ pageCalls[2].page = "Books"
    /\ pageCalls[2].elapsed = 1500
    /\ pageCalls[2].trailing = 2
    /\ Len(attempts) = 3
    /\ attempts[2].data.pageName = "Dashboard"
    /\ Get(attempts[2].data, "timeSpent") = "1500"
    /\ attempts[3].data.pageName = "Books"
    /\ currentPage = "Books"
    /\ pageStartTime > pageCalls[2].at

\* the page_view records sent so far
PageViewsSent == SelectSeq(attempts, LAMBDA a : a.logEntry.f.type = "page_view")

\* C15 as stated: after logPageView(A) on a new logger and logPageView(B) more
\* than 1000 ms later have both returned, two records have been sent: one for
\* A with a timeSpent of at least the time between the calls, then one for B
\* without timeSpent.
C15_Original ==
    (/\ Len(pageCalls) = 2
     /\ pageCalls[1].tracked = ""
     /\ pageCalls[2].at - pageCalls[1].at > 1000
     /\ \A c \in Slots : calls[c].op = "idle")
    => /\ Len(PageViewsSent) = 2
       /\ PageViewsSent[1].data.pageName = pageCalls[1].page
       /\ \E t \in (pageCalls[2].at - pageCalls[1].at)..MaxElapsed :
             Get(PageViewsSent[1].data, "timeSpent") = ToString(t)
       /\ PageViewsSent[2].data.pageName = pageCalls[2].page
       /\ Get(PageViewsSent[2].data, "timeSpent") = Undefined

\* C15, amended: when logPageView(A) wrote no trailing record itself and the
\* next logPageView, for B, is called T > 1000 ms later, the second call sends
\* two records: a page_view record with A's name as pageName and timeSpent T,
\* and after that write has finished a page_view record for B without
\* timeSpent; with A's own entry record the two calls send three records.
C15_TrailingThenEntry ==
    \A k \in 1..(Len(pageCalls) - 1) :
        LET A == pageCalls[k]
            B == pageCalls[k + 1]
            T == B.at - A.at
        IN  (A.trailing = 0 /\ T > 1000)
            => /\ B.trailing # 0
               /\ B.entry = B.trailing + 1
               /\ B.tracked = A.page
               /\ B.elapsed = T
               /\ Len(AttemptsOf(attempts, A.entry)) <= 1
               /\ Len(AttemptsOf(attempts, B.trailing)) <= 1
               /\ Len(AttemptsOf(attempts, B.entry)) <= 1
               /\ \A i \in 1..Len(attempts) :
                     /\ attempts[i].logEntry.id = B.trailing
                        => /\ attempts[i].data.type = "page_view"
                           /\ attempts[i].data.pageName = A.page
                           /\ Get(attempts[i].data, "timeSpent") = ToString(T)
                     /\ attempts[i].logEntry.id = B.entry
                        => /\ attempts[i].data.type = "page_view"
                           /\ attempts[i].data.pageName = B.page
                           /\ Get(attempts[i].data, "timeSpent") = Undefined
                           /\ \E j \in 1..(i - 1) :
                                 /\ attempts[j].logEntry.id = B.trailing
                                 /\ attempts[j].result.state \in {"ok", "failed"}
               /\ (\A c \in Slots : calls[c].op = "idle")
                  => /\ AttemptsOf(attempts, A.entry) # <<>>
                     /\ AttemptsOf(attempts, B.trailing) # <<>>
                     /\ AttemptsOf(attempts, B.entry) # <<>>

\* Dashboard, then Books 1500 ms later: three records were sent, Dashboard's
\* entry, Dashboard's trailing record with timeSpent 1500, and Books' entry
C15_Witness ==
    /\ \A c \in Slots : calls[c].op = "idle"
    /\ Len(pageCalls) = 2
    /\ pageCalls[1].tracked = ""
    /\ pageCalls[2].at - pageCalls[1].at = 1500
    /\ Len(PageViewsSent) = 3
    /\ \A i \in 1..3 : PageViewsSent[i].result = Ok
    /\ Get(PageViewsSent[1].data, "timeSpent") = Undefined
    /\ Get(PageViewsSent[2].data, "timeSpent") = "1500"
    /\ PageViewsSent[2].data.pageUrl = "Dashboard"
    /\ PageViewsSent[3].data.pageUrl = "/books"

\* C16: a logPageView call made less than 1000 ms after the tracked page was
\* entered writes no trailing record: its only record is the new page's entry.
C16_NoTrailingWhenShort ==
    [][\A c \in Slots :
          /\ (PageStarts(c) /\ currentPage # "" /\ now - pageStartTime < 1000)
             => /\ pageCalls'[Len(pageCalls')].trailing = 0
                /\ nextId' = nextId + 1
                /\ calls'[c].w.logEntry.id = nextId'
                /\ calls'[c].w.logEntry.f.pageName = pageCalls'[Len(pageCalls')].page
                /\ Get(calls'[c].w.logEntry.f, "timeSpent") = Undefined
                /\ ~HasMore(calls'[c])
          /\ (/\ calls[c].op = "log"
              /\ ~HasMore(calls[c])
              /\ calls[c].pc = "addDoc"
              /\ calls'[c] # calls[c])
             => calls'[c] = Idle]_vars

\* Books was opened 500 ms after Dashboard: two records were sent, the two
\* entry records
C16_Witness ==
    /\ \A c \in Slots : calls[c].op = "idle"
    /\ Len(pageCalls) = 2
    /\ pageCalls[1].page = "Dashboard"
    /\ pageCalls[2].page = "Books"
    /\ pageCalls[2].tracked = "Dashboard"
    /\ pageCalls[2].elapsed = 500
    /\ Len(attempts) = 2
    /\ attempts[2].data.pageName = "Books"
    /\ "timeSpent" \notin DOMAIN attempts[1].data
    /\ "timeSpent" \notin DOMAIN attempts[2].data

\* C17: logLogout passes two records to writeLog, a session_end record and
\* then a logout record; the writeLog of the logout record starts in the step
\* in which the addDoc of the session_end record has settled (resolved, or
\* rejected and then queued or dropped), and the call returns when the writeLog
\* of the logout record returns.
C17_LogoutOrder ==
    [][\A c \in Slots :
          /\ (/\ calls[c].op = "idle"
              /\ calls'[c].op = "log"
              /\ calls'[c].w.logEntry.f.type \in {"session_end", "logout"})
             => /\ calls'[c].w.logEntry.f.type = "session_end"
                /\ HasMore(calls'[c])
                /\ Len(calls'[c].rest) = 1
                /\ calls'[c].rest[1].w.logEntry.f.type = "logout"
          /\ (/\ calls'[c].op = "log"
              /\ calls'[c].w.logEntry.f.type = "logout"
              /\ calls'[c] # calls[c]
              /\ calls'[c].pc = "fetch")
             => /\ calls[c].op = "log"
                /\ calls[c].w.logEntry.f.type = "session_end"
                /\ calls[c].pc = "addDoc"
                /\ attempts'[calls[c].att].result.state \in {"ok", "failed"}
                /\ AttemptsOf(attempts', calls'[c].w.logEntry.id) = <<>>
                /\ ~HasMore(calls'[c])
          /\ (/\ calls[c].op = "log"
              /\ calls[c].w.logEntry.f.type = "logout"
              /\ calls[c].pc = "addDoc"
              /\ calls'[c] # calls[c])
             => calls'[c] = Idle]_vars

\* a logLogout call has returned: its session_end record was denied and
\* queued, its logout record was written after that
C17_Witness ==
    /\ \A c \in Slots : calls[c].op = "idle"
    /\ Len(attempts) = 2
    /\ attempts[1].data.type = "session_end"
    /\ attempts[1].result = Failed(PermissionDenied)
    /\ attempts[2].data.type = "logout"
    /\ attempts[2].path = <<"authLogs">>
    /\ attempts[2].result = Ok
    /\ QueueIds(pendingLogs) = {attempts[1].logEntry.id}

\* C18: the record writeLog sends carries as userId the explicit argument when
\* there is one, also when the entry holds another id; the entry's id when
\* there is no explicit one; and no userId property when there is neither.
C18_ExplicitWins ==
    probe.done /\ "data" \in DOMAIN probe
    => IF probe.in.userId # Undefined
       THEN Get(probe.data, "userId") = probe.in.userId
       ELSE IF probe.in.embedded # Undefined
       THEN Get(probe.data, "userId") = probe.in.embedded
       ELSE "userId" \notin DOMAIN probe.data

\* an entry that holds u1 was written with the explicit id u2
C18_Witness ==
    /\ probe.done
    /\ "data" \in DOMAIN probe
    /\ probe.in.userId = "u2"
    /\ probe.in.embedded = "u1"
    /\ probe.data.userId = "u2"
    /\ probe.path = <<"authLogs">>

RECURSIVE HasUndefinedField(_)
HasUndefinedField(n) ==
    \E i \in 1..Len(n.kids) :
        \/ n.t = "object" /\ n.kids[i].n.t = "undefined"
        \/ HasUndefinedField(n.kids[i].n)

\* some array at any depth of n has an element that is undefined
RECURSIVE HasUndefinedElement(_)
HasUndefinedElement(n) ==
    \E i \in 1..Len(n.kids) :
        \/ n.t = "array" /\ n.kids[i].n.t = "undefined"
        \/ HasUndefinedElement(n.kids[i].n)

\* the positions of the properties of an object whose value is not undefined
KeptFields(n) == {i \in 1..Len(n.kids) : n.kids[i].n.t # "undefined"}

\* out holds what in holds but for the undefined properties of in's objects:
\* the same scalar, null for null, an object with the kept properties of in
\* under their keys and in their order, an array with in's elements
RECURSIVE KeepsAllButUndefined(_, _)
KeepsAllButUndefined(in, out) ==
    /\ out.t = in.t
    /\ out.v = in.v
    /\ IF in.t = "object"
       THEN /\ Len(out.kids) = Cardinality(KeptFields(in))
            /\ \A i \in KeptFields(in) :
                  LET j == Cardinality({h \in KeptFields(in) : h <= i})
                  IN  /\ out.kids[j].k = in.kids[i].k
                      /\ KeepsAllButUndefined(in.kids[i].n, out.kids[j].n)
       ELSE /\ Len(out.kids) = Len(in.kids)
            /\ \A i \in 1..Len(in.kids) :
                  KeepsAllButUndefined(in.kids[i].n, out.kids[i].n)

\* C20: the output of cleanUndefinedValues has no undefined property in any
\* object at any depth; every other property is kept under its key with its
\* value cleaned in the same way, null stays null, and an object whose
\* properties were all undefined is kept as an empty object. (Arrays with
\* undefined elements are left to the statement about sequences.)
C20_NoUndefinedFields ==
    probe.done /\ "out" \in DOMAIN probe
    => /\ ~HasUndefinedField(probe.out)
       /\ (probe.in.t # "undefined" /\ ~HasUndefinedElement(probe.in)
              => KeepsAllButUndefined(probe.in, probe.out))

\* {a: {a: undefined, b: undefined}, b: null} was cleaned to {a: {}, b: null}
C20_Witness ==
    /\ probe.done
    /\ "out" \in DOMAIN probe
    /\ probe.in = ObjectValue(<<Entry("a", ObjectValue(<<Entry("a", UndefinedValue),
                                                       Entry("b", UndefinedValue)>>)),
                              Entry("b", NullValue)>>)
    /\ probe.out = ObjectValue(<<Entry("a", ObjectValue(<<>>)), Entry("b", NullValue)>>)

\* the elements of an array that are not undefined
DefinedElements(n) == SelectSeq(n.kids, NotUndefined)

\* C21: cleanUndefinedValues removes the undefined elements of an array: the
\* output holds the cleaned elements that were not undefined, in order, and is
\* shorter than the input by the number of undefined elements.
C21_Original ==
    probe.done /\ "out" \in DOMAIN probe /\ probe.in.t = "array"
    => /\ probe.out.t = "array"
       /\ Len(probe.out.kids) = Len(DefinedElements(probe.in))
       /\ \A i \in 1..Len(DefinedElements(probe.in)) :
             /\ i <= Len(probe.out.kids)
             /\ probe.out.kids[i].n = cleanUndefinedValuesDeep(DefinedElements(probe.in)[i].n)

\* a Logger that has just been constructed on the first load of the page
FreshInstance == nextId = 0 /\ replayCalls = 0 /\ reloads = 0

\* C22: when a Logger is constructed, on the first load of the page and on
\* every reload, its queue is what the localStorage item parses to, and is
\* empty when there is no item, when the item does not parse and when reading
\* it throws; the construction raises nothing and leaves the item alone.
C22_LoadAtInit ==
    /\ [](FreshInstance => pendingLogs = StoredQueue /\ raised = {})
    /\ [][reloads' = reloads + 1
            => /\ pendingLogs' = IF faults' = faults THEN StoredQueue ELSE <<>>
               /\ storage' = storage
               /\ raised' = raised]_vars

\* a reload has loaded an entry that the previous instance had queued
C22_Witness ==
    /\ reloads = 1
    /\ sessionNo = 2
    /\ pendingLogs # <<>>
    /\ pendingLogs = StoredQueue
    /\ \E i \in 1..Len(attempts) :
          /\ attempts[i].result = Failed(PermissionDenied)
          /\ attempts[i].logEntry.id \in QueueIds(pendingLogs)

\* C23: a rejected addDoc puts its entry in the queue exactly when queueing is
\* allowed and what was thrown is an Error whose message contains "permission"
\* or "unauthorized"; after any other rejection (a message with neither
\* substring, a thrown value that is no Error, a replay's write) the queue and
\* the item are what they were.
C23_QueuedWhenPermissionShaped ==
    [][\A c \in Slots :
          RejectedNow(c)
          => LET a == attempts[calls[c].att]
                 error == attempts'[calls[c].att].result.error
             IN  IF /\ a.allowQueue
                    /\ error.isError
                    /\ ("permission" \in error.words \/ "unauthorized" \in error.words)
                 THEN /\ Len(pendingLogs') = Len(pendingLogs) + 1
                      /\ SubSeq(pendingLogs', 1, Len(pendingLogs)) = pendingLogs
                      /\ pendingLogs'[Len(pendingLogs')].logEntry = a.logEntry
                 ELSE /\ pendingLogs' = pendingLogs
                      /\ storage' = storage]_vars

\* of two book views, the one rejected with "unauthorized" is queued and the
\* one rejected with a network error is not
C23_Witness ==
    /\ Len(attempts) = 2
    /\ \E i, j \in 1..2 :
          /\ attempts[i].allowQueue
          /\ attempts[i].result = Failed(Unauthorized)
          /\ attempts[j].allowQueue
          /\ attempts[j].result = Failed(NetworkError)
          /\ QueueIds(pendingLogs) = {attempts[i].logEntry.id}
          /\ attempts[j].logEntry.id \notin QueueIds(StoredQueue)

\* C24: an entry that a replay has resent is in neither the queue nor the
\* item, whatever became of the resend: a resend that is rejected, also with a
\* permission error, does not put the entry back, so when the replay has
\* ended nothing of its snapshot is left in either.
C24_FailedResendDropped ==
    \A i \in 1..Len(attempts) :
        IsReplayAttempt(attempts[i])
        => /\ attempts[i].logEntry.id \notin QueueIds(pendingLogs)
           /\ attempts[i].logEntry.id \notin QueueIds(StoredQueue)

\* a replay has ended whose resend was rejected with a permission error: the
\* queue and the item are empty
C24_Witness ==
    /\ ~isProcessingPendingLogs
    /\ \A c \in Slots : calls[c].op = "idle"
    /\ reloads = 0
    /\ pendingLogs = <<>>
    /\ storage = JsonText(<<>>)
    /\ \E i \in 1..Len(attempts) :
          /\ IsReplayAttempt(attempts[i])
          /\ attempts[i].result = Failed(PermissionDenied)

\* the addDocs issued in this step
IssuedNow == {attempts'[i] : i \in (Len(attempts) + 1)..Len(attempts')}

\* C25: while a replay is in its loop, the entry of every log call whose
\* addDoc is rejected with a permission error is appended at the end of the
\* queue, the queue changes in no other way, the item holds the queue, and the
\* replay sends entries of its snapshot only. So when the replay ends the
\* entries queued meanwhile are in the queue and in the item, in the order of
\* their rejections, and the replay has sent none of them.
C25_QueuedDuringReplay ==
    [][\A c \in Slots :
          (calls[c].op = "replay" /\ reloads' = reloads)
          => /\ \A d \in Slots :
                   (/\ RejectedNow(d)
                    /\ attempts[calls[d].att].allowQueue
                    /\ attempts'[calls[d].att].result.error.words # {})
                   => pendingLogs' = Append(pendingLogs,
                                            [logEntry |-> attempts[calls[d].att].logEntry,
                                             userId |-> attempts[calls[d].att].userId])
             /\ pendingLogs' # pendingLogs
                   => \E d \in Slots :
                         /\ RejectedNow(d)
                         /\ attempts[calls[d].att].allowQueue
                         /\ attempts'[calls[d].att].result.error.words # {}
             /\ SameEntries(pendingLogs', StoredQueue')
             /\ \A a \in IssuedNow :
                   IsReplayAttempt(a) => a.logEntry.id \in QueueIds(calls[c].logs)
             /\ \A a \in IssuedNow :
                   IsReplayAttempt(a) => a.logEntry.id \notin QueueIds(pendingLogs)]_vars

\* the replay of the earlier entry is in its last write; two book views logged
\* meanwhile were rejected, the second before the first, and are queued and
\* stored in that order
C25_Witness ==
    /\ replayCalls = 1
    /\ \E c \in Slots :
          /\ calls[c].op = "replay"
          /\ calls[c].pc = "addDoc"
          /\ QueueIds(calls[c].logs) = {0}
    /\ Len(pendingLogs) = 2
    /\ pendingLogs[1].logEntry.id = 2
    /\ pendingLogs[2].logEntry.id = 1
    /\ SameEntries(pendingLogs, StoredQueue)
    /\ \A i \in 1..Len(attempts) :
          IsReplayAttempt(attempts[i]) => attempts[i].logEntry.id = 0

\* logPageView calls i and j took the same visit of the same page for the one
\* that is ending
SameVisit(i, j) ==
    /\ pageCalls[i].tracked = pageCalls[j].tracked
    /\ pageCalls[i].at - pageCalls[i].elapsed = pageCalls[j].at - pageCalls[j].elapsed

\* C26: no two logPageView calls write a trailing record for the same visit of
\* a page, also when the second call starts while the first is suspended in
\* its trailing write.
C26_Original ==
    \A i, j \in 1..Len(pageCalls) :
        (i < j /\ pageCalls[i].trailing # 0 /\ pageCalls[j].trailing # 0)
        => ~SameVisit(i, j)

\* the addDocs for entry id that the store accepted
StoredCount(id) ==
    Cardinality({i \in 1..Len(attempts) :
                    attempts[i].logEntry.id = id /\ attempts[i].result = Ok})

\* the places entry id has in the queue
QueuedCount(id) ==
    Cardinality({k \in 1..Len(pendingLogs) :
                    "logEntry" \in DOMAIN pendingLogs[k] /\ pendingLogs[k].logEntry.id = id})

\* C27: in one Logger instance, once every call has returned, each record
\* given to writeLog is in the store once, or in the queue once, or in
\* neither (dropped): none is in both and none is in either twice.
C27_Conservation ==
    (reloads = 0 /\ \A c \in Slots : calls[c].op = "idle")
    => \A id \in 1..nextId :
          /\ Len(AttemptsOf(attempts, id)) >= 1
          /\ StoredCount(id) + QueuedCount(id) <= 1
          /\ \A i \in 1..Len(attempts) : attempts[i].result # Pending

\* every call has returned: record 1 was rejected, queued and stored by a
\* replay, record 2 was rejected and is in the queue
C27_Witness ==
    /\ reloads = 0
    /\ \A c \in Slots : calls[c].op = "idle"
    /\ nextId = 2
    /\ Len(AttemptsOf(attempts, 1)) = 2
    /\ StoredCount(1) = 1 /\ QueuedCount(1) = 0
    /\ StoredCount(2) = 0 /\ QueuedCount(2) = 1

\* C28: with localStorage reads and writes that succeed, whenever control is
\* back at the event loop the item parses to the in-memory queue (no item
\* standing for the empty queue): in particular after every enqueue and after
\* the clear step of every replay, which leaves an item that holds the empty
\* queue.
C28_StoredEqualsQueue ==
    /\ SameEntries(pendingLogs, StoredQueue)
    /\ storage.kind \in {"none", "text"}
    /\ storage.kind = "none" => pendingLogs = <<>> /\ replayCalls = replayNoops

\* a replay has cleared the queue and is in its loop, and an entry queued
\* since is in the queue and in the item
C28_Witness ==
    /\ isProcessingPendingLogs
    /\ \E c \in Slots : calls[c].op = "replay"
    /\ Len(pendingLogs) = 1
    /\ storage = JsonText(Stringify(pendingLogs))
    /\ \E i \in 1..Len(attempts) :
          /\ attempts[i].result = Failed(PermissionDenied)
          /\ attempts[i].logEntry = pendingLogs[1].logEntry

\* a processPendingLogs call is in its loop
ReplayRunning == \E c \in Slots : calls[c].op = "replay"

\* C29: isProcessingPendingLogs is true exactly while a processPendingLogs
\* call is in its loop; it is false again once the call has ended, whatever
\* became of its writes and whatever was caught, and in a new instance; so a
\* call made when no replay is running is never turned away at the guard.
C29_FlagWhileReplaying ==
    /\ [](isProcessingPendingLogs <=> ReplayRunning)
    /\ [][(replayCalls' # replayCalls /\ ~ReplayRunning)
            => replayNoops' = replayNoops /\ pendingLogs' = <<>>]_vars

\* a replay ended whose write was rejected, the flag was reset, and a second
\* replay went past the guard and ended too
C29_Witness ==
    /\ ~isProcessingPendingLogs
    /\ ~ReplayRunning
    /\ replayCalls = 2
    /\ replayNoops = 0
    /\ reloads = 0
    /\ \E i \in 1..Len(attempts) :
          IsReplayAttempt(attempts[i]) /\ attempts[i].result.state = "failed"

\* C30: every addDoc carries the sessionId of the instance that issues it,
\* which changes only when a reload builds a new instance, and then to another
\* value; a queue entry holds no sessionId, so an entry that one instance
\* queued and a later one replays is sent with the later instance's sessionId.
C30_SessionIdOfSender ==
    [][/\ \A a \in IssuedNow : Get(a.data, "sessionId") = SessionId(sessionNo)
       /\ \A i \in 1..Len(attempts) : attempts'[i].data = attempts[i].data
       /\ sessionNo' # sessionNo => reloads' # reloads
       /\ reloads' # reloads => SessionId(sessionNo') # SessionId(sessionNo)
       /\ \A k \in 1..Len(pendingLogs') :
             "sessionId" \notin DOMAIN pendingLogs'[k].logEntry.f]_vars

\* an entry was sent and rejected under the first instance's sessionId and,
\* after a reload, resent by a replay under the second instance's
C30_Witness ==
    /\ reloads = 1
    /\ \E i, j \in 1..Len(attempts) :
          /\ i < j
          /\ attempts[i].logEntry.id = attempts[j].logEntry.id
          /\ attempts[i].result = Failed(PermissionDenied)
          /\ attempts[i].data.sessionId = SessionId(1)
          /\ IsReplayAttempt(attempts[j])
          /\ attempts[j].data.sessionId = SessionId(2)
          /\ attempts[j].result = Ok

====
